---- MODULE Spec2Model ----
(***************************************************************************)
(* r2-webdav: a WebDAV front end over a flat key -> object store (R2).     *)
(*                                                                         *)
(* Strings (URL paths, store keys) are sequences of one-character strings, *)
(* so that slice, endsWith, split and join are modelled by what they do.   *)
(* A request is handled by one handler; the handlers that only issue       *)
(* store calls one after another are one action each, the fan-out of a     *)
(* Depth-infinity COPY / MOVE (one promise per listed object, awaited      *)
(* jointly) is modelled store call by store call.                          *)
(***************************************************************************)
EXTENDS Integers, Sequences, FiniteSets, TLC

VARIABLES
    bucket,     \* the R2 bucket: a function from the stored keys to objects
    pc,         \* position of the request in flight: "idle", "list", "join",
                \* or "done" once the response is made
    req,        \* the request being handled, or the last one handled
    resp,       \* its response; status 0 while the handler is still running
    pre,        \* the bucket as it was when the request arrived
    cursor,     \* listAll's cursor in the running COPY / MOVE
    tasks,      \* the promises of the running COPY / MOVE, by source key
    dest_exists, \* handle_copy / handle_move's destination_exists
    removed,    \* the keys other requests have deleted while the COPY / MOVE
                \* in flight was running
    iter,       \* a listAll iterator that is consumed call by call
    conc        \* a PUT and a DELETE handled at the same time: the position
                \* and the locals of each handler

vars == <<bucket, pc, req, resp, pre, cursor, tasks, dest_exists, removed,
          iter, conc>>

----------------------------------------------------------------------------
(* Bounds *)

\* bucket.list returns at most this many items per page (R2's own limit is
\* 1000; small here so that a subtree spans several pages).
PageLimit == 1

\* A Depth-infinity COPY / MOVE is issued only if no key it writes is longer.
MaxKeyLen == 3

\* URL pathnames of requests: the root, a member or Collection with and
\* without trailing slash, a second top-level name, a child, and a path with
\* an empty last segment (its key is "a/").
UrlPaths ==
    { <<"/">>,
      <<"/", "a">>, <<"/", "a", "/">>,
      <<"/", "b">>,
      <<"/", "a", "/", "a">>,
      <<"/", "a", "/", "/">> }

\* URL pathnames of the sources of COPY and MOVE.
SourcePaths ==
    { <<"/", "a">>,
      <<"/", "b">>,
      <<"/", "a", "/", "a">>,
      <<"/", "a", "/", "/">> }

\* URL pathnames of Destination headers.
DestPaths ==
    { <<"/", "a">>,
      <<"/", "b", "/">>,
      <<"/", "a", "/", "a">>,
      <<"/", "a", "/", "/">> }

\* Destination headers that are no absolute URL: the path alone.
RelativeDests == { <<"/", "b">> }

NoValue == "<undefined>"

\* What a PUT carries: a body and a Content-Type header (or none).
PutContents ==
    { [body |-> <<1>>, ctype |-> "text/plain"],
      [body |-> <<2, 3>>, ctype |-> NoValue] }

Collection == "<collection />"

\* Custom metadata names a PROPPATCH may touch, and the values it may set.
PropNames == { "resourcetype", "author" }
PropValues == { "v" }

OverwriteValues == { NoValue, "T", "F" }
DepthValues == { NoValue, "0", "1", "infinity" }

\* Depth headers of PROPFIND: those above and one that no handler knows
PropfindDepths == DepthValues \cup { "2" }

\* If-Match headers of PUT: none, or the entity tag of the first PUT body
PutConditions == { << >>, << <<1>> >> }

\* bodies a MKCOL request may carry
MkcolBodies == { << >>, <<1>> }

\* request methods that have no handler
OtherMethods == { "POST", "LOCK" }

\* The store refuses a key that is longer (R2: 1024 bytes); small here so
\* that a transfer which feeds on its own output reaches it.
KeyLimit == 5

\* the largest size of the entries that are read with a Range header
MaxSize == 3

\* the largest offset, length and suffix of a Range header
MaxRange == 4

----------------------------------------------------------------------------
(* Strings *)

EmptyStr == << >>

endsWith(s, c) == Len(s) > 0 /\ s[Len(s)] = c

startsWith(s, p) == Len(p) <= Len(s) /\ SubSeq(s, 1, Len(p)) = p

\* s.slice(n) for n >= 0
sliceFrom(s, n) == SubSeq(s, n + 1, Len(s))

\* s.slice(0, -1)
dropLastChar(s) == SubSeq(s, 1, Len(s) - 1)

\* s.split('/'): the segments between slashes ("" splits into [""])
RECURSIVE split(_)
split(s) ==
    IF \A i \in 1..Len(s) : s[i] # "/"
    THEN << s >>
    ELSE LET i == CHOOSE j \in 1..Len(s) :
                     s[j] = "/" /\ \A k \in 1..(j - 1) : s[k] # "/"
         IN  << SubSeq(s, 1, i - 1) >> \o split(SubSeq(s, i + 1, Len(s)))

\* segs.join('/')
RECURSIVE join(_)
join(segs) ==
    IF Len(segs) = 0 THEN EmptyStr
    ELSE IF Len(segs) = 1 THEN segs[1]
    ELSE segs[1] \o <<"/">> \o join(Tail(segs))

\* segs.slice(0, -n)
dropLastSegs(segs, n) ==
    IF Len(segs) <= n THEN << >> ELSE SubSeq(segs, 1, Len(segs) - n)

\* Byte order of the characters used in keys.
CharCode(c) == CASE c = "/" -> 47 [] c = "a" -> 97 [] c = "b" -> 98

\* s < t in the store's key order (lexicographic by bytes)
RECURSIVE KeyLess(_, _)
KeyLess(s, t) ==
    IF Len(t) = 0 THEN FALSE
    ELSE IF Len(s) = 0 THEN TRUE
    ELSE IF s[1] # t[1] THEN CharCode(s[1]) < CharCode(t[1])
    ELSE KeyLess(Tail(s), Tail(t))

\* the keys of S in key order
RECURSIVE SortKeys(_)
SortKeys(S) ==
    IF S = {} THEN << >>
    ELSE LET m == CHOOSE x \in S : \A y \in S \ {x} : KeyLess(x, y)
         IN  << m >> \o SortKeys(S \ {m})

----------------------------------------------------------------------------
(* The object store (R2 bucket binding) *)

NoMeta == [n \in PropNames |-> NoValue]
CollectionMeta == [NoMeta EXCEPT !["resourcetype"] = Collection]

R2Object(body, ctype, custom) ==
    [body |-> body, contentType |-> ctype, customMetadata |-> custom]

\* bucket.head(key) / bucket.get(key) !== null
Has(b, key) == key \in DOMAIN b

\* bucket.put(key, body, {httpMetadata, customMetadata})
BucketPut(b, key, obj) ==
    [k \in (DOMAIN b) \cup {key} |-> IF k = key THEN obj ELSE b[k]]

\* bucket.delete(keys)
BucketDelete(b, keys) == [k \in (DOMAIN b) \ keys |-> b[k]]

\* object.customMetadata?.resourcetype === '<collection />'
IsCollection(obj) == obj.customMetadata["resourcetype"] = Collection

\* bucket.list({prefix, delimiter, cursor}): one page.  The keys that start
\* with the prefix and come after the cursor, in key order; with a delimiter,
\* the keys that contain it after the prefix are rolled up into one delimited
\* prefix, which takes a slot of the page but is no object.  cur is << >>
\* (no cursor) or << k >>.
ItemName(key, prefix, delimited) ==
    LET rest == sliceFrom(key, Len(prefix))
    IN  IF delimited /\ \E i \in 1..Len(rest) : rest[i] = "/"
        THEN LET i == CHOOSE j \in 1..Len(rest) :
                          rest[j] = "/" /\ \A k \in 1..(j - 1) : rest[k] # "/"
             IN  prefix \o SubSeq(rest, 1, i)
        ELSE key

BucketList(b, prefix, delimited, cur) ==
    LET matching == { k \in DOMAIN b : startsWith(k, prefix) }
        names    == { ItemName(k, prefix, delimited) : k \in matching }
        after    == { n \in names : cur = << >> \/ KeyLess(cur[1], n) }
        sorted   == SortKeys(after)
        n        == IF Len(sorted) < PageLimit THEN Len(sorted) ELSE PageLimit
        page     == SubSeq(sorted, 1, n)
    IN  [ objects   |-> SelectSeq(page, LAMBDA x : x \in matching
                                       /\ ItemName(x, prefix, delimited) = x),
          truncated |-> Len(sorted) > n,
          cursor    |-> IF n = 0 THEN << >> ELSE << page[n] >> ]

\* listAll(bucket, prefix, isRecursive): the keys it yields, page after page,
\* over a bucket that does not change meanwhile
RECURSIVE listAllFrom(_, _, _, _)
listAllFrom(b, prefix, isRecursive, cur) ==
    LET r2_objects == BucketList(b, prefix, ~isRecursive, cur)
    IN  IF r2_objects.truncated
        THEN r2_objects.objects
                 \o listAllFrom(b, prefix, isRecursive, r2_objects.cursor)
        ELSE r2_objects.objects

listAll(b, prefix, isRecursive) == listAllFrom(b, prefix, isRecursive, << >>)

\* A listAll generator that is consumed step by step.  cursor is its local
\* variable, r2_objects the objects of the page not yet yielded; calls, pages
\* and yielded record the cursors it has passed to bucket.list, the pages
\* bucket.list has returned and the objects it has yielded.
Iterator(prefix, isRecursive) ==
    [ prefix |-> prefix, isRecursive |-> isRecursive, state |-> "call",
      cursor |-> << >>, r2_objects |-> << >>,
      calls |-> << >>, pages |-> << >>, yielded |-> << >> ]

\* no listAll generator is being consumed
NoIterator == [Iterator(EmptyStr, FALSE) EXCEPT !.state = "none"]


----------------------------------------------------------------------------
(* Requests and responses *)

\* an absent number (undefined)
NoNumber == -1

\* an R2Range: {offset, length} with either optional, or {suffix}
Range(offset, length, suffix) ==
    [offset |-> offset, length |-> length, suffix |-> suffix]

\* no Range header: object.range is undefined
NoRange == Range(NoNumber, NoNumber, NoNumber)

\* Header values are the bytes TextEncoder.encode gives for them.  The
\* header 'Basic dTpw', which a client sends for the user u with password p:
BasicUserPass == <<66, 97, 115, 105, 99, 32, 100, 84, 112, 119>>

\* The Authorization headers of requests: none (read as ''), the one for
\* u:p, the one for u:q ('Basic dTpx'), the scheme in lower case, the header
\* for u:p cut short by one byte and longer by one byte.
Authorizations ==
    { << >>,
      BasicUserPass,
      <<66, 97, 115, 105, 99, 32, 100, 84, 112, 120>>,
      <<98, 97, 115, 105, 99, 32, 100, 84, 112, 119>>,
      <<66, 97, 115, 105, 99, 32, 100, 84, 112>>,
      <<66, 97, 115, 105, 99, 32, 100, 84, 112, 119, 61>> }

Request(method, url) ==
    [ method |-> method, url |-> url, body |-> << >>, ctype |-> NoValue,
      dest |-> << >>, overwrite |-> NoValue, depth |-> NoValue,
      set |-> << >>, remove |-> {},
      ifMatch |-> << >>, range |-> NoRange,
      authorization |-> BasicUserPass ]

\* a request with the given Authorization header
RequestWith(method, url, authorization) ==
    [Request(method, url) EXCEPT !.authorization = authorization]

\* contentRange is << >> or <<rangeOffset, rangeEnd, size>>; allow is the
\* Allow header as the list of its methods, dav the DAV header
Response(status) ==
    [ status |-> status, body |-> << >>, contentType |-> NoValue,
      contentLength |-> -1, contentRange |-> << >>, hrefs |-> << >>,
      allow |-> << >>, dav |-> NoValue ]

\* no response yet: the handler is running
Pending == Response(0)

\* new URL(request.url).pathname.slice(1), less one trailing slash
make_resource_path(url) ==
    LET path == sliceFrom(url, 1)
    IN  IF endsWith(path, "/") THEN dropLastChar(path) ELSE path

\* resource_path.split('/').slice(0, -1).join('/')
parent_dir(resource_path) == join(dropLastSegs(split(resource_path), 1))

----------------------------------------------------------------------------
(* Handlers that run to their response in one step.  Each yields the       *)
(* bucket it leaves and its response.                                       *)

Outcome(b, response) == [bucket |-> b, resp |-> response]

Min(m, n) == IF m <= n THEN m ELSE n
Max(m, n) == IF m >= n THEN m ELSE n

\* the entity tag of a stored object: a digest of its content, here the
\* content itself
ETag(object) == object.body

\* A faulty onlyIf_holds: the conditional headers are never evaluated.
onlyIf_ignored(object, r) == TRUE

\* bucket.get's onlyIf: the If-Match header (r.ifMatch is << >> or <<etag>>),
\* when present, names the object's entity tag
onlyIf_holds(object, r) == r.ifMatch = << >> \/ r.ifMatch[1] = ETag(object)

\* the bytes bucket.get streams for a range: those of the object inside it
range_body(body, range) ==
    IF range = NoRange THEN body
    ELSE IF range.suffix # NoNumber
    THEN SubSeq(body, Max(Len(body) - range.suffix, 0) + 1, Len(body))
    ELSE LET offset == IF range.offset = NoNumber THEN 0 ELSE range.offset
             length == IF range.length = NoNumber
                       THEN Len(body) - offset ELSE range.length
         IN  SubSeq(body, offset + 1, Min(offset + length, Len(body)))

\* the R2ObjectBody bucket.get returns for a stored object and a Range header
R2ObjectBody(object, range) ==
    [ body |-> range_body(object.body, range), size |-> Len(object.body),
      range |-> range, contentType |-> object.contentType ]

calcContentRange(object) ==
    IF object.range = NoRange
    THEN [rangeOffset |-> 0, rangeEnd |-> object.size - 1]
    ELSE IF object.range.suffix # NoNumber
    THEN [rangeOffset |-> object.size - object.range.suffix,
          rangeEnd |-> object.size - 1]
    ELSE LET rangeOffset == IF object.range.offset = NoNumber
                            THEN 0 ELSE object.range.offset
             length == IF object.range.length = NoNumber
                       THEN object.size - rangeOffset
                       ELSE object.range.length
         IN  [rangeOffset |-> rangeOffset,
              rangeEnd |-> Min(rangeOffset + length - 1, object.size - 1)]

handle_get(b, r) ==
    LET resource_path == make_resource_path(r.url)
    IN  IF endsWith(r.url, "/")
        THEN LET prefix == IF resource_path # EmptyStr
                           THEN resource_path \o <<"/">> ELSE resource_path
                 keys   == SelectSeq(listAll(b, prefix, FALSE),
                                     LAMBDA k : k # resource_path)
             IN  Outcome(b, [Response(200) EXCEPT
                     !.contentType = "text/html; charset=utf-8",
                     !.hrefs = [i \in 1..Len(keys) |->
                                  <<"/">> \o keys[i] \o
                                  (IF IsCollection(b[keys[i]])
                                   THEN <<"/">> ELSE << >>)]])
        ELSE IF ~Has(b, resource_path)
        THEN Outcome(b, Response(404))
        ELSE IF ~onlyIf_holds(b[resource_path], r)
        THEN Outcome(b, Response(412))
        ELSE LET object == R2ObjectBody(b[resource_path], r.range)
                 range  == calcContentRange(object)
                 contentLength == range.rangeEnd - range.rangeOffset + 1
             IN  Outcome(b, [Response(IF object.range # NoRange
                                         /\ contentLength # object.size
                                      THEN 206 ELSE 200) EXCEPT
                     !.body = object.body,
                     !.contentType = IF object.contentType = NoValue
                                     THEN "application/octet-stream"
                                     ELSE object.contentType,
                     !.contentLength = contentLength,
                     !.contentRange = <<range.rangeOffset, range.rangeEnd,
                                        object.size>>])

\* A faulty handle_head: the GET response as it is, body included.
handle_head_with_body(b, r) == handle_get(b, r)

handle_head(b, r) ==
    LET response == handle_get(b, r).resp
    IN  Outcome(b, [response EXCEPT !.body = << >>])

\* A faulty put_object: the Content-Type header is not stored.
put_object_without_type(r) == R2Object(r.body, NoValue, NoMeta)

\* what handle_put stores: the request body, httpMetadata from the headers
put_object(r) == R2Object(r.body, r.ctype, NoMeta)

\* bucket.put's onlyIf: without If-Match the write is accepted; with it, only
\* if the key holds an object with that entity tag (put then returns null and
\* writes nothing)
put_accepted(b, key, r) ==
    r.ifMatch = << >> \/ (Has(b, key) /\ onlyIf_holds(b[key], r))

\* A faulty handle_put: the object is stored before the parent is checked.
handle_put_write_first(b, r) ==
    IF endsWith(r.url, "/") THEN Outcome(b, Response(405))
    ELSE LET resource_path == make_resource_path(r.url)
             dirpath       == parent_dir(resource_path)
             b1            == BucketPut(b, resource_path, put_object(r))
         IN  IF dirpath # EmptyStr
                /\ ~(Has(b, dirpath) /\ IsCollection(b[dirpath]))
             THEN Outcome(b1, Response(409))
             ELSE Outcome(b1, Response(201))

handle_put(b, r) ==
    IF endsWith(r.url, "/") THEN Outcome(b, Response(405))
    ELSE LET resource_path == make_resource_path(r.url)
             dirpath       == parent_dir(resource_path)
         IN  IF dirpath # EmptyStr
                /\ ~(Has(b, dirpath) /\ IsCollection(b[dirpath]))
             THEN Outcome(b, Response(409))
             ELSE Outcome(IF put_accepted(b, resource_path, r)
                          THEN BucketPut(b, resource_path, put_object(r))
                          ELSE b,
                          Response(201))

\* A faulty DeleteLoop: the first page only, the cursor is never followed.
DeleteLoop_first_page(b, prefix, cur) ==
    LET r2_objects == BucketList(b, prefix, FALSE, cur)
        keys       == { r2_objects.objects[i] : i \in 1..Len(r2_objects.objects) }
    IN  IF keys # {} THEN BucketDelete(b, keys) ELSE b

\* the list-and-delete loop of handle_delete
RECURSIVE DeleteLoop(_, _, _)
DeleteLoop(b, prefix, cur) ==
    LET r2_objects == BucketList(b, prefix, FALSE, cur)
        keys       == { r2_objects.objects[i] : i \in 1..Len(r2_objects.objects) }
        b1         == IF keys # {} THEN BucketDelete(b, keys) ELSE b
    IN  IF r2_objects.truncated
        THEN DeleteLoop(b1, prefix, r2_objects.cursor)
        ELSE b1

\* A faulty handle_delete_path: the descendants are listed by the path
\* itself as prefix, without the "/" after it.
handle_delete_path_by_name(b, resource_path) ==
    IF resource_path = EmptyStr
    THEN Outcome(DeleteLoop(b, EmptyStr, << >>), Response(204))
    ELSE IF ~Has(b, resource_path) THEN Outcome(b, Response(404))
    ELSE LET resource == b[resource_path]
             b1       == BucketDelete(b, {resource_path})
         IN  IF ~IsCollection(resource) THEN Outcome(b1, Response(204))
             ELSE Outcome(DeleteLoop(b1, resource_path, << >>),
                          Response(204))

handle_delete_path(b, resource_path) ==
    IF resource_path = EmptyStr
    THEN Outcome(DeleteLoop(b, EmptyStr, << >>), Response(204))
    ELSE IF ~Has(b, resource_path) THEN Outcome(b, Response(404))
    ELSE LET resource == b[resource_path]
             b1       == BucketDelete(b, {resource_path})
         IN  IF ~IsCollection(resource) THEN Outcome(b1, Response(204))
             ELSE Outcome(DeleteLoop(b1, resource_path \o <<"/">>, << >>),
                          Response(204))

handle_delete(b, r) == handle_delete_path(b, make_resource_path(r.url))

\* A faulty handle_mkcol: only an existing Collection is refused.
handle_mkcol_over_member(b, r) ==
    LET resource_path == make_resource_path(r.url)
        parent        == parent_dir(resource_path)
    IN  IF Has(b, resource_path) /\ IsCollection(b[resource_path])
        THEN Outcome(b, Response(405))
        ELSE IF parent # EmptyStr /\ ~Has(b, parent)
        THEN Outcome(b, Response(409))
        ELSE Outcome(BucketPut(b, resource_path,
                               R2Object(<< >>, r.ctype, CollectionMeta)),
                     Response(201))

\* A faulty handle_mkcol: a request that carries a body is refused (the check
\* the source has commented out).
handle_mkcol_without_body(b, r) ==
    LET resource_path == make_resource_path(r.url)
        parent        == parent_dir(resource_path)
    IN  IF r.body # << >> THEN Outcome(b, Response(415))
        ELSE IF Has(b, resource_path) THEN Outcome(b, Response(405))
        ELSE IF parent # EmptyStr /\ ~Has(b, parent)
        THEN Outcome(b, Response(409))
        ELSE Outcome(BucketPut(b, resource_path,
                               R2Object(<< >>, r.ctype, CollectionMeta)),
                     Response(201))

handle_mkcol(b, r) ==
    LET resource_path == make_resource_path(r.url)
        parent        == parent_dir(resource_path)
    IN  IF Has(b, resource_path) THEN Outcome(b, Response(405))
        ELSE IF parent # EmptyStr /\ ~Has(b, parent)
        THEN Outcome(b, Response(409))
        ELSE Outcome(BucketPut(b, resource_path,
                               R2Object(<< >>, r.ctype, CollectionMeta)),
                     Response(201))

\* the href of generate_propfind_response
propfind_href(b, key) ==
    <<"/">> \o key \o (IF IsCollection(b[key]) THEN <<"/">> ELSE << >>)

\* A faulty propfind_members: Depth 1 and Depth infinity swapped.
propfind_members_swapped(b, prefix, depth) ==
    IF depth = "1" THEN listAll(b, prefix, TRUE)
    ELSE IF depth = "infinity" THEN listAll(b, prefix, FALSE)
    ELSE << >>

\* the keys handle_propfind lists after the target, by Depth
propfind_members(b, prefix, depth) ==
    IF depth = "1" THEN listAll(b, prefix, FALSE)
    ELSE IF depth = "infinity" THEN listAll(b, prefix, TRUE)
    ELSE << >>

\* A faulty handle_propfind: a Depth it does not know is read as Depth 0.
handle_propfind_lenient(b, r) ==
    LET resource_path == make_resource_path(r.url)
        own == IF resource_path = EmptyStr THEN <<"/">>
               ELSE propfind_href(b, resource_path)
        prefix == IF resource_path = EmptyStr
                  THEN resource_path ELSE resource_path \o <<"/">>
        depth  == IF r.depth = NoValue THEN "infinity" ELSE r.depth
        keys   == IF resource_path = EmptyStr \/ IsCollection(b[resource_path])
                  THEN propfind_members(b, prefix, depth) ELSE << >>
    IN  IF resource_path # EmptyStr /\ ~Has(b, resource_path)
        THEN Outcome(b, Response(404))
        ELSE Outcome(b, [Response(207) EXCEPT
                 !.contentType = "text/xml",
                 !.hrefs = << own >> \o [i \in 1..Len(keys) |->
                                            propfind_href(b, keys[i])]])

handle_propfind(b, r) ==
    LET resource_path == make_resource_path(r.url)
        depth  == IF r.depth = NoValue THEN "infinity" ELSE r.depth
        prefix == IF resource_path = EmptyStr
                  THEN resource_path ELSE resource_path \o <<"/">>
        own    == IF resource_path = EmptyStr THEN <<"/">>
                  ELSE propfind_href(b, resource_path)
        is_collection == resource_path = EmptyStr
                         \/ IsCollection(b[resource_path])
        listed(keys) == [i \in 1..Len(keys) |-> propfind_href(b, keys[i])]
        multistatus(hrefs) ==
            Outcome(b, [Response(207) EXCEPT !.contentType = "text/xml",
                                             !.hrefs = hrefs])
    IN  IF resource_path # EmptyStr /\ ~Has(b, resource_path)
        THEN Outcome(b, Response(404))
        ELSE IF ~is_collection THEN multistatus(<< own >>)
        ELSE IF depth \in {"0", "1", "infinity"}
        THEN multistatus(<< own >>
                         \o listed(propfind_members(b, prefix, depth)))
        ELSE Outcome(b, Response(403))

\* A faulty handle_proppatch: the removals are applied before the sets, so a
\* name that is both set and removed keeps the value set.
handle_proppatch_set_last(b, r) ==
    LET resource_path == make_resource_path(r.url)
    IN  IF ~Has(b, resource_path) THEN Outcome(b, Response(404))
        ELSE LET object == b[resource_path]
                 setNames == { r.set[i][1] : i \in 1..Len(r.set) }
                 lastSet(n) == r.set[CHOOSE i \in 1..Len(r.set) :
                                   r.set[i][1] = n
                                   /\ \A j \in (i + 1)..Len(r.set) :
                                          r.set[j][1] # n][2]
                 customMetadata ==
                     [n \in PropNames |->
                         IF n \in setNames THEN lastSet(n)
                         ELSE IF n \in r.remove THEN NoValue
                         ELSE object.customMetadata[n]]
             IN  Outcome(BucketPut(b, resource_path,
                             R2Object(object.body, object.contentType,
                                      customMetadata)),
                         [Response(207) EXCEPT
                             !.contentType = "application/xml; charset=\"utf-8\"",
                             !.hrefs = [i \in 1..(Cardinality(setNames)
                                                   + Cardinality(r.remove)) |->
                                           <<"/">> \o resource_path]])

\* r.set is a sequence of <<name, value>> pairs in document order, r.remove a
\* set of names
handle_proppatch(b, r) ==
    LET resource_path == make_resource_path(r.url)
    IN  IF ~Has(b, resource_path) THEN Outcome(b, Response(404))
        ELSE LET object == b[resource_path]
                 setNames == { r.set[i][1] : i \in 1..Len(r.set) }
                 lastSet(n) == r.set[CHOOSE i \in 1..Len(r.set) :
                                   r.set[i][1] = n
                                   /\ \A j \in (i + 1)..Len(r.set) :
                                          r.set[j][1] # n][2]
                 customMetadata ==
                     [n \in PropNames |->
                         IF n \in r.remove THEN NoValue
                         ELSE IF n \in setNames THEN lastSet(n)
                         ELSE object.customMetadata[n]]
             IN  Outcome(BucketPut(b, resource_path,
                             R2Object(object.body, object.contentType,
                                      customMetadata)),
                         [Response(207) EXCEPT
                             !.contentType = "application/xml; charset=\"utf-8\"",
                             !.hrefs = [i \in 1..(Cardinality(setNames)
                                                   + Cardinality(r.remove)) |->
                                           <<"/">> \o resource_path]])

----------------------------------------------------------------------------
(* COPY and MOVE *)

\* A Destination header is a sequence of characters; an absolute URL begins
\* with its origin, written as one element.
Origin == "http://host"

\* new URL(header) throws a TypeError unless the header is an absolute URL
new_URL_throws(header) == header = << >> \/ Head(header) # Origin

\* new URL(header).pathname
URL_pathname(header) == Tail(header)

\* the handler threw: fetch catches nothing, no Response is made
Threw == -1

\* the request carries a Destination header that new URL() accepts
has_destination(r) == r.dest # << >> /\ ~new_URL_throws(r.dest[1])

\* new URL(destination_header).pathname.slice(1), less one trailing slash
destination_of(r) == make_resource_path(URL_pathname(r.dest[1]))

\* destination.split('/').slice(0, destination.endsWith('/') ? -2 : -1).join('/')
destination_parent(destination) ==
    join(dropLastSegs(split(destination),
                      IF endsWith(destination, "/") THEN 2 ELSE 1))

\* the Depth header of COPY / MOVE: request.headers.get('Depth') ?? 'infinity'
depth_of(r) == IF r.depth = NoValue THEN "infinity" ELSE r.depth

\* the target key of copy(object) / move(object)
fanout_target(destination, prefix, key) ==
    LET target == destination \o <<"/">> \o sliceFrom(key, Len(prefix))
    IN  IF endsWith(target, "/") THEN dropLastChar(target) ELSE target

\* A faulty copy_precheck: an existing destination is refused unless
\* Overwrite is T.
copy_precheck_blocking(b, r) ==
    LET resource_path == make_resource_path(r.url)
    IN  IF r.dest = << >> THEN 400
        ELSE IF new_URL_throws(r.dest[1]) THEN Threw
        ELSE LET destination == destination_of(r)
                 parent      == destination_parent(destination)
             IN  IF parent # EmptyStr /\ ~Has(b, parent) THEN 409
                 ELSE IF r.overwrite # "T" /\ Has(b, destination) THEN 412
                 ELSE IF ~Has(b, resource_path) THEN 404
                 ELSE IF IsCollection(b[resource_path])
                         /\ depth_of(r) \notin {"infinity", "0"} THEN 400
                 ELSE 0

\* the status handle_copy returns before it reads the source's body, or 0
copy_precheck(b, r) ==
    LET resource_path == make_resource_path(r.url)
    IN  IF r.dest = << >> THEN 400
        ELSE IF new_URL_throws(r.dest[1]) THEN Threw
        ELSE LET destination == destination_of(r)
                 parent      == destination_parent(destination)
             IN  IF parent # EmptyStr /\ ~Has(b, parent) THEN 409
                 ELSE IF r.overwrite = "F" /\ Has(b, destination) THEN 412
                 ELSE IF ~Has(b, resource_path) THEN 404
                 ELSE IF IsCollection(b[resource_path])
                         /\ depth_of(r) \notin {"infinity", "0"} THEN 400
                 ELSE 0

\* the status handle_move returns before it touches the bucket, or 0
move_precheck(b, r) ==
    LET resource_path == make_resource_path(r.url)
    IN  IF r.dest = << >> THEN 400
        ELSE IF new_URL_throws(r.dest[1]) THEN Threw
        ELSE LET destination == destination_of(r)
                 parent      == destination_parent(destination)
             IN  IF parent # EmptyStr /\ ~Has(b, parent) THEN 409
                 ELSE IF r.overwrite # "T" /\ Has(b, destination) THEN 412
                 ELSE IF ~Has(b, resource_path) THEN 404
                 ELSE IF resource_path = destination THEN 400
                 ELSE 0

\* a Depth-infinity COPY / MOVE of a Collection onto itself or to a
\* destination inside it: its promises read keys that its promises write
into_own_subtree(b, r) ==
    /\ has_destination(r)
    /\ Has(b, make_resource_path(r.url))
    /\ IsCollection(b[make_resource_path(r.url)])
    /\ depth_of(r) = "infinity"
    /\ startsWith(destination_of(r) \o <<"/">>,
                  make_resource_path(r.url) \o <<"/">>)

\* every key the fan-out of r would write from bucket b is within MaxKeyLen
within_key_bound(b, r) ==
    LET resource_path == make_resource_path(r.url)
        prefix        == resource_path \o <<"/">>
    IN  \A k \in DOMAIN b :
            startsWith(k, prefix)
                => Len(fanout_target(destination_of(r), prefix, k)) <= MaxKeyLen

\* the Depth-infinity COPY / MOVE requests of a Collection that are left out
beyond_bounds(b, r) ==
    into_own_subtree(b, r)
    \/ ( /\ has_destination(r)
         /\ Has(b, make_resource_path(r.url))
         /\ IsCollection(b[make_resource_path(r.url)])
         /\ depth_of(r) = "infinity"
         /\ ~within_key_bound(b, r) )

\* a promise of the fan-out: copy(object) / move(object), which has the
\* object's metadata from head or list and reads its body with get
Task(object) ==
    [ phase |-> "get", body |-> << >>,
      contentType |-> object.contentType,
      customMetadata |-> object.customMetadata ]

\* A faulty success_status: 201 whether or not the destination existed.
success_status_created(existed) == 201

\* destination_exists ? 204 : 201
success_status(existed) == IF existed THEN 204 ELSE 201

\* handle_copy starts the fan-out: a Collection copied with Depth infinity
copy_fans_out(b, r) ==
    /\ copy_precheck(b, r) = 0
    /\ IsCollection(b[make_resource_path(r.url)])
    /\ depth_of(r) = "infinity"

\* handle_copy where it does not fan out: a refusal, or one get and one put
copy_outcome(b, r) ==
    LET status        == copy_precheck(b, r)
        resource_path == make_resource_path(r.url)
    IN  IF status # 0 THEN Outcome(b, Response(status))
        ELSE Outcome(BucketPut(b, destination_of(r), b[resource_path]),
                     Response(success_status(Has(b, destination_of(r)))))

\* the bucket after handle_move has called handle_delete on an existing
\* destination
move_cleared(b, r) ==
    IF Has(b, destination_of(r))
    THEN handle_delete_path(b, destination_of(r)).bucket
    ELSE b

\* handle_move starts the fan-out: a Collection moved with Depth infinity
move_fans_out(b, r) ==
    /\ move_precheck(b, r) = 0
    /\ IsCollection(b[make_resource_path(r.url)])
    /\ depth_of(r) = "infinity"

\* handle_move where it does not fan out: a refusal, or the destination
\* deleted, then one get, one put and one delete
move_outcome(b, r) ==
    LET status        == move_precheck(b, r)
        resource_path == make_resource_path(r.url)
    IN  IF status # 0 THEN Outcome(b, Response(status))
        ELSE LET destination == destination_of(r)
                 existed     == Has(b, destination)
                 resource    == b[resource_path]
                 b1          == move_cleared(b, r)
             IN  IF IsCollection(resource) /\ depth_of(r) # "0"
                 THEN Outcome(b1, Response(400))
                 ELSE IF ~Has(b1, resource_path)
                 THEN Outcome(b1, Response(404))
                 ELSE Outcome(
                          BucketDelete(
                              BucketPut(b1, destination,
                                  R2Object(b1[resource_path].body,
                                           b1[resource_path].contentType,
                                           b1[resource_path].customMetadata)),
                              {resource_path}),
                          Response(success_status(existed)))

DAV_CLASS == "1, 3"

SUPPORT_METHODS ==
    << "OPTIONS", "PROPFIND", "PROPPATCH", "MKCOL", "GET", "HEAD", "PUT",
       "DELETE", "COPY", "MOVE" >>

\* a response with the Allow and DAV headers
Capabilities(status) ==
    [Response(status) EXCEPT !.allow = SUPPORT_METHODS, !.dav = DAV_CLASS]

\* the If-Match and Range headers of GET and HEAD: none, an entity tag that
\* matches one of the PUT bodies or none, the first byte, the last byte
GetHeaders ==
    { [ifMatch |-> << >>, range |-> NoRange],
      [ifMatch |-> << <<1>> >>, range |-> NoRange],
      [ifMatch |-> << <<9>> >>, range |-> NoRange],
      [ifMatch |-> << >>, range |-> Range(0, 1, NoNumber)],
      [ifMatch |-> << >>, range |-> Range(NoNumber, NoNumber, 1)] }

----------------------------------------------------------------------------
(* The authorization gate of fetch *)

\* env.USERNAME and env.PASSWORD: 'u' and 'p'
USERNAME == <<117>>
PASSWORD == <<112>>

\* the character of the base64 alphabet for a 6-bit value
base64_char(v) ==
    IF v < 26 THEN 65 + v
    ELSE IF v < 52 THEN 97 + (v - 26)
    ELSE IF v < 62 THEN 48 + (v - 52)
    ELSE IF v = 62 THEN 43 ELSE 47

\* btoa(string): three bytes give four characters, the last group is padded
\* with '='
RECURSIVE btoa(_)
btoa(bytes) ==
    IF Len(bytes) = 0 THEN << >>
    ELSE LET b2 == IF Len(bytes) >= 2 THEN bytes[2] ELSE 0
             b3 == IF Len(bytes) >= 3 THEN bytes[3] ELSE 0
             n  == bytes[1] * 65536 + b2 * 256 + b3
         IN  << base64_char(n \div 262144),
                base64_char((n \div 4096) % 64),
                IF Len(bytes) >= 2 THEN base64_char((n \div 64) % 64) ELSE 61,
                IF Len(bytes) >= 3 THEN base64_char(n % 64) ELSE 61 >>
             \o btoa(SubSeq(bytes, 4, Len(bytes)))

\* crypto.subtle.timingSafeEqual(a, b) for arrays of equal length
timingSafeEqual(a, b) == \A i \in 1..Len(a) : a[i] = b[i]

\* A faulty is_authorized: only the lengths are compared.
is_authorized_by_length(authorization_header, username, password) ==
    LET expected == <<66, 97, 115, 105, 99, 32>>
                        \o btoa(username \o <<58>> \o password)
    IN  Len(authorization_header) = Len(expected)

is_authorized(authorization_header, username, password) ==
    LET header   == authorization_header
        expected == <<66, 97, 115, 105, 99, 32>>
                        \o btoa(username \o <<58>> \o password)
    IN  Len(header) = Len(expected) /\ timingSafeEqual(header, expected)

\* fetch lets the request through to dispatch_handler
fetch_admits(method, authorization) ==
    method = "OPTIONS" \/ is_authorized(authorization, USERNAME, PASSWORD)

\* the Authorization headers with which a request of the method is let through
Admitted(method) == { a \in Authorizations : fetch_admits(method, a) }

\* new Response('Unauthorized', {status: 401, ...})
Unauthorized == Response(401)

----------------------------------------------------------------------------
(* A PUT and a DELETE that are handled at the same time *)

\* The two handlers, each at its next store call: put_request and del_request
\* are the requests, put and del the positions, put_status and del_status the
\* statuses returned (0: none yet); is_dir, cursor and r2_objects are locals
\* of handle_delete.
Handlers(put_request, del_request) ==
    [ put_request |-> put_request, put |-> "head", put_status |-> 0,
      del_request |-> del_request, del |-> "head", del_status |-> 0,
      is_dir |-> FALSE, cursor |-> << >>,
      r2_objects |-> [objects |-> << >>, truncated |-> FALSE, cursor |-> << >>] ]

\* no PUT and DELETE are handled at the same time
NoHandlers ==
    [Handlers(Request("NONE", <<"/">>), Request("NONE", <<"/">>)) EXCEPT
         !.put = "none", !.del = "none"]

----------------------------------------------------------------------------
(* Actions *)

Init ==
    /\ bucket = << >>
    /\ pc = "idle"
    /\ req = Request("NONE", <<"/">>)
    /\ resp = Response(200)
    /\ pre = << >>
    /\ cursor = << >>
    /\ tasks = << >>
    /\ dest_exists = FALSE
    /\ removed = {}
    /\ iter = NoIterator
    /\ conc = NoHandlers

\* a handler that runs to its response without fan-out
Serve(r, outcome) ==
    /\ req' = r
    /\ pre' = bucket
    /\ bucket' = outcome.bucket
    /\ resp' = outcome.resp
    /\ pc' = "done"
    /\ UNCHANGED <<cursor, tasks, dest_exists, removed, iter, conc>>

\* start the fan-out of a Depth-infinity COPY / MOVE of a Collection from
\* bucket b: the promise for the Collection itself is made before listAll runs
StartFanout(r, b) ==
    /\ req' = r
    /\ pre' = bucket
    /\ bucket' = b
    /\ resp' = Pending
    /\ pc' = "list"
    /\ cursor' = << >>
    /\ tasks' = [k \in {make_resource_path(r.url)} |-> Task(bucket[k])]
    /\ dest_exists' = Has(bucket, destination_of(r))
    /\ UNCHANGED <<removed, iter, conc>>

\* handle_copy up to its response or to the start of its fan-out
CopyStep(r) ==
    IF copy_fans_out(bucket, r) THEN StartFanout(r, bucket)
    ELSE Serve(r, copy_outcome(bucket, r))

\* handle_move up to its response or to the start of its fan-out
MoveStep(r) ==
    IF move_fans_out(bucket, r) THEN StartFanout(r, move_cleared(bucket, r))
    ELSE Serve(r, move_outcome(bucket, r))

\* every request method: those of SUPPORT_METHODS and those without handler
Methods == { SUPPORT_METHODS[i] : i \in 1..Len(SUPPORT_METHODS) } \cup OtherMethods

\* A faulty dispatch_handler: the case of HEAD has no return and falls
\* through to the case of GET, the case of MKCOL is missing.
dispatch_handler_fallthrough(method) ==
    CASE method = "OPTIONS" -> "OPTIONS"
      [] method = "HEAD" -> "handle_get"
      [] method = "GET" -> "handle_get"
      [] method = "PUT" -> "handle_put"
      [] method = "DELETE" -> "handle_delete"
      [] method = "PROPFIND" -> "handle_propfind"
      [] method = "PROPPATCH" -> "handle_proppatch"
      [] method = "COPY" -> "handle_copy"
      [] method = "MOVE" -> "handle_move"
      [] OTHER -> "default"

\* the switch on request.method: the case that answers the request
dispatch_handler(method) ==
    CASE method = "OPTIONS" -> "OPTIONS"
      [] method = "HEAD" -> "handle_head"
      [] method = "GET" -> "handle_get"
      [] method = "PUT" -> "handle_put"
      [] method = "DELETE" -> "handle_delete"
      [] method = "MKCOL" -> "handle_mkcol"
      [] method = "PROPFIND" -> "handle_propfind"
      [] method = "PROPPATCH" -> "handle_proppatch"
      [] method = "COPY" -> "handle_copy"
      [] method = "MOVE" -> "handle_move"
      [] OTHER -> "default"

\* case 'OPTIONS'
DoOptions ==
    /\ pc = "idle"
    /\ \E method \in Methods :
       \E authorization \in Admitted(method), url \in UrlPaths :
        /\ dispatch_handler(method) = "OPTIONS"
        /\ Serve(RequestWith(method, url, authorization),
                 Outcome(bucket, Capabilities(204)))

DoGet ==
    /\ pc = "idle"
    /\ \E method \in Methods :
       \E authorization \in Admitted(method), url \in UrlPaths, h \in GetHeaders :
        LET r == [RequestWith(method, url, authorization) EXCEPT
                      !.ifMatch = h.ifMatch, !.range = h.range]
        IN  /\ dispatch_handler(method) = "handle_get"
            /\ Serve(r, handle_get(bucket, r))

DoHead ==
    /\ pc = "idle"
    /\ \E method \in Methods :
       \E authorization \in Admitted(method), url \in UrlPaths, h \in GetHeaders :
        LET r == [RequestWith(method, url, authorization) EXCEPT
                      !.ifMatch = h.ifMatch, !.range = h.range]
        IN  /\ dispatch_handler(method) = "handle_head"
            /\ Serve(r, handle_head(bucket, r))

DoPut ==
    /\ pc = "idle"
    /\ \E method \in Methods :
       \E authorization \in Admitted(method), url \in UrlPaths,
          c \in PutContents, ifMatch \in PutConditions :
        LET r == [RequestWith(method, url, authorization) EXCEPT
                      !.body = c.body, !.ctype = c.ctype, !.ifMatch = ifMatch]
        IN  /\ dispatch_handler(method) = "handle_put"
            /\ Serve(r, handle_put(bucket, r))

DoDelete ==
    /\ pc = "idle"
    /\ \E method \in Methods :
       \E authorization \in Admitted(method), url \in UrlPaths :
        LET r == RequestWith(method, url, authorization)
        IN  /\ dispatch_handler(method) = "handle_delete"
            /\ Serve(r, handle_delete(bucket, r))

DoMkcol ==
    /\ pc = "idle"
    /\ \E method \in Methods :
       \E authorization \in Admitted(method), url \in UrlPaths, body \in MkcolBodies :
        LET r == [RequestWith(method, url, authorization) EXCEPT !.body = body]
        IN  /\ dispatch_handler(method) = "handle_mkcol"
            /\ Serve(r, handle_mkcol(bucket, r))

DoPropfind ==
    /\ pc = "idle"
    /\ \E method \in Methods :
       \E authorization \in Admitted(method), url \in UrlPaths, depth \in PropfindDepths :
        LET r == [RequestWith(method, url, authorization) EXCEPT !.depth = depth]
        IN  /\ dispatch_handler(method) = "handle_propfind"
            /\ Serve(r, handle_propfind(bucket, r))

\* the property updates a PROPPATCH body may carry
PropUpdates ==
    { [set |-> << >>, remove |-> {}] }
    \cup { [set |-> << <<n, v>> >>, remove |-> {}] :
               n \in PropNames, v \in PropValues }
    \cup { [set |-> << >>, remove |-> {n}] : n \in PropNames }
    \cup { [set |-> << <<n, v>> >>, remove |-> {m}] :
               n \in PropNames, m \in PropNames, v \in PropValues }

DoProppatch ==
    /\ pc = "idle"
    /\ \E method \in Methods :
       \E authorization \in Admitted(method), url \in UrlPaths, u \in PropUpdates :
        LET r == [RequestWith(method, url, authorization) EXCEPT
                      !.set = u.set, !.remove = u.remove]
        IN  /\ dispatch_handler(method) = "handle_proppatch"
            /\ Serve(r, handle_proppatch(bucket, r))

\* A faulty default case: a method without handler is answered 405 only after
\* the request has been stored as an entry.
DoOther_storing ==
    /\ pc = "idle"
    /\ \E method \in Methods :
       \E authorization \in Admitted(method), url \in UrlPaths :
        /\ dispatch_handler(method) = "default"
        /\ Serve(RequestWith(method, url, authorization),
                 Outcome(BucketPut(bucket, make_resource_path(url),
                                   R2Object(<< >>, NoValue, NoMeta)),
                         Capabilities(405)))

\* the default case
DoOther ==
    /\ pc = "idle"
    /\ \E method \in Methods :
       \E authorization \in Admitted(method), url \in UrlPaths :
        /\ dispatch_handler(method) = "default"
        /\ Serve(RequestWith(method, url, authorization),
                 Outcome(bucket, Capabilities(405)))

\* A faulty DoUnauthorized: the handler has run when the credentials are
\* looked at.
DoUnauthorized_after_dispatch ==
    /\ pc = "idle"
    /\ \E method \in Methods, authorization \in Authorizations,
          url \in UrlPaths :
        LET r == RequestWith(method, url, authorization)
        IN  /\ ~fetch_admits(method, authorization)
            /\ Serve(r, Outcome(IF method = "DELETE"
                                THEN handle_delete(bucket, r).bucket
                                ELSE bucket,
                                Unauthorized))

\* fetch answers a request that is not let through
DoUnauthorized ==
    /\ pc = "idle"
    /\ \E method \in Methods, authorization \in Authorizations,
          url \in UrlPaths :
        /\ ~fetch_admits(method, authorization)
        /\ Serve(RequestWith(method, url, authorization),
                 Outcome(bucket, Unauthorized))

\* the Destination headers of COPY / MOVE: absent, an absolute URL, or a
\* relative reference
Destinations ==
    { << >> }
    \cup { << <<Origin>> \o path >> : path \in DestPaths }
    \cup { << path >> : path \in RelativeDests }

CopyMoveRequests(method) ==
    { [RequestWith(method, url, authorization) EXCEPT
           !.dest = dest, !.overwrite = overwrite, !.depth = depth] :
        authorization \in Admitted(method), url \in SourcePaths,
        dest \in Destinations,
        overwrite \in OverwriteValues, depth \in DepthValues }

DoCopy ==
    /\ pc = "idle"
    /\ \E method \in Methods :
        /\ dispatch_handler(method) = "handle_copy"
        /\ \E r \in CopyMoveRequests(method) :
               ~beyond_bounds(bucket, r) /\ CopyStep(r)

DoMove ==
    /\ pc = "idle"
    /\ \E method \in Methods :
        /\ dispatch_handler(method) = "handle_move"
        /\ \E r \in CopyMoveRequests(method) :
               ~beyond_bounds(bucket, r) /\ MoveStep(r)

fanout_prefix == make_resource_path(req.url) \o <<"/">>

\* listAll's next bucket.list call; every object of the page gets its promise
FanoutList ==
    /\ pc = "list"
    /\ LET r2_objects == BucketList(bucket, fanout_prefix, FALSE, cursor)
           keys == { r2_objects.objects[i] : i \in 1..Len(r2_objects.objects) }
       IN  /\ tasks' = [k \in (DOMAIN tasks) \cup keys |->
                           IF k \in keys THEN Task(bucket[k]) ELSE tasks[k]]
           /\ IF r2_objects.truncated
              THEN cursor' = r2_objects.cursor /\ pc' = "list"
              ELSE cursor' = << >> /\ pc' = "join"
    /\ UNCHANGED <<bucket, req, resp, pre, dest_exists, removed, iter, conc>>

\* A faulty TaskGet: a source that is gone aborts the request with 404.
TaskGet_aborting ==
    \E k \in DOMAIN tasks :
        /\ tasks[k].phase = "get"
        /\ IF Has(bucket, k)
           THEN /\ tasks' = [tasks EXCEPT ![k] =
                               [@ EXCEPT !.phase = "put",
                                         !.body = bucket[k].body]]
                /\ UNCHANGED <<pc, resp>>
           ELSE /\ tasks' = << >>
                /\ pc' = "done"
                /\ resp' = Response(404)
        /\ UNCHANGED <<bucket, req, pre, cursor, dest_exists, removed, iter, conc>>

\* let src = await bucket.get(object.key)
TaskGet ==
    \E k \in DOMAIN tasks :
        /\ tasks[k].phase = "get"
        /\ tasks' = [tasks EXCEPT ![k] =
                        IF Has(bucket, k)
                        THEN [@ EXCEPT !.phase = "put", !.body = bucket[k].body]
                        ELSE [@ EXCEPT !.phase = "done"]]
        /\ UNCHANGED <<bucket, pc, req, resp, pre, cursor, dest_exists, removed, iter, conc>>

\* await bucket.put(target, src.body, {httpMetadata, customMetadata}); the
\* store refuses a key beyond its limit, and the promise is rejected
TaskPut ==
    \E k \in DOMAIN tasks :
        LET target == fanout_target(destination_of(req), fanout_prefix, k)
        IN  /\ tasks[k].phase = "put"
            /\ bucket' = IF Len(target) > KeyLimit THEN bucket
                          ELSE BucketPut(bucket, target,
                                   R2Object(tasks[k].body, tasks[k].contentType,
                                            tasks[k].customMetadata))
            /\ tasks' = [tasks EXCEPT ![k].phase =
                            IF Len(target) > KeyLimit THEN "rejected"
                            ELSE IF req.method = "MOVE" THEN "delete"
                            ELSE "done"]
            /\ UNCHANGED <<pc, req, resp, pre, cursor, dest_exists, removed, iter, conc>>

\* await bucket.delete(object.key), in move(object)
TaskDelete ==
    \E k \in DOMAIN tasks :
        /\ tasks[k].phase = "delete"
        /\ bucket' = BucketDelete(bucket, {k})
        /\ tasks' = [tasks EXCEPT ![k].phase = "done"]
        /\ UNCHANGED <<pc, req, resp, pre, cursor, dest_exists, removed, iter, conc>>

\* A faulty FanoutRespond: the response is made once listAll has ended,
\* without awaiting the promises.
FanoutRespond_early ==
    /\ pc = "join"
    /\ resp' = Response(success_status(dest_exists))
    /\ pc' = "done"
    /\ tasks' = << >>
    /\ UNCHANGED <<bucket, req, pre, cursor, dest_exists, removed, iter, conc>>

\* await Promise.all(promise_array), then the response; with a rejected
\* promise the await throws, and so does the handler
FanoutRespond ==
    /\ pc = "join"
    /\ \/ \A k \in DOMAIN tasks : tasks[k].phase = "done"
       \/ \E k \in DOMAIN tasks : tasks[k].phase = "rejected"
    /\ resp' = IF \E k \in DOMAIN tasks : tasks[k].phase = "rejected"
               THEN Response(Threw)
               ELSE Response(success_status(dest_exists))
    /\ pc' = "done"
    /\ tasks' = << >>
    /\ UNCHANGED <<bucket, req, pre, cursor, dest_exists, removed, iter, conc>>

\* the response is returned; the handler's locals are gone, the bucket stays
Return ==
    /\ pc = "done"
    /\ pc' = "idle"
    /\ req' = Request("NONE", <<"/">>)
    /\ resp' = Response(200)
    /\ pre' = << >>
    /\ dest_exists' = FALSE
    /\ removed' = {}
    /\ UNCHANGED <<bucket, cursor, tasks, iter, conc>>

Next ==
    \/ DoOptions \/ DoGet \/ DoHead \/ DoPut \/ DoDelete \/ DoMkcol \/ DoPropfind
    \/ DoCopy \/ DoMove \/ DoOther
    \/ FanoutList \/ TaskGet \/ TaskPut \/ TaskDelete \/ FanoutRespond
    \/ Return

Spec == Init /\ [][Next]_vars

----------------------------------------------------------------------------
(* The server with PROPPATCH, on the paths of one name and its child *)

\* URL pathnames of the requests and Destination headers of SpecPatch
PatchPaths ==
    { <<"/">>, <<"/", "a">>, <<"/", "a", "/">>, <<"/", "a", "/", "a">> }

InPatchScope(r) ==
    /\ r.url \in PatchPaths
    /\ has_destination(r) => URL_pathname(r.dest[1]) \in PatchPaths

NextPatch ==
    \/ DoOptions /\ InPatchScope(req')
    \/ DoGet /\ InPatchScope(req')
    \/ DoHead /\ InPatchScope(req')
    \/ DoPut /\ InPatchScope(req')
    \/ DoDelete /\ InPatchScope(req')
    \/ DoMkcol /\ InPatchScope(req')
    \/ DoPropfind /\ InPatchScope(req')
    \/ DoProppatch /\ InPatchScope(req')
    \/ DoCopy /\ InPatchScope(req')
    \/ DoMove /\ InPatchScope(req')
    \/ DoOther /\ InPatchScope(req')
    \/ FanoutList \/ TaskGet \/ TaskPut \/ TaskDelete \/ FanoutRespond
    \/ Return

SpecPatch == Init /\ [][NextPatch]_vars

----------------------------------------------------------------------------
(* A recursive COPY / MOVE while another request deletes descendants *)

\* Stores to start from: the Collection a with the members a/a and a/b, and a
\* destination b that is absent or a member.
RaceStores ==
    LET marker == BucketPut(<< >>, <<"a">>,
                            R2Object(<< >>, NoValue, CollectionMeta))
        object(c) == R2Object(c.body, c.ctype, NoMeta)
        tree(c1, c2) ==
            BucketPut(BucketPut(marker, <<"a", "/", "a">>, object(c1)),
                      <<"a", "/", "b">>, object(c2))
    IN  { tree(c1, c2) : c1, c2 \in PutContents }
        \cup { BucketPut(tree(c1, c2), <<"b">>, object(c1)) :
                   c1, c2 \in PutContents }

InitRace ==
    /\ bucket \in RaceStores
    /\ pc = "idle"
    /\ req = Request("NONE", <<"/">>)
    /\ resp = Response(200)
    /\ pre = << >>
    /\ cursor = << >>
    /\ tasks = << >>
    /\ dest_exists = FALSE
    /\ removed = {}
    /\ iter = NoIterator
    /\ conc = NoHandlers

\* the recursive transfers of /a to /b
InRaceScope(r) ==
    /\ r.url = <<"/", "a">>
    /\ has_destination(r) /\ URL_pathname(r.dest[1]) = <<"/", "b", "/">>
    /\ depth_of(r) = "infinity"

\* bucket.delete(resource_path) of a DELETE request handled meanwhile, for a
\* descendant that the running COPY / MOVE has listed and not yet read
ConcurrentDelete ==
    /\ pc \in {"list", "join"}
    /\ \E k \in DOMAIN tasks :
           /\ k # make_resource_path(req.url)
           /\ tasks[k].phase = "get"
           /\ Has(bucket, k)
           /\ bucket' = BucketDelete(bucket, {k})
           /\ removed' = removed \cup {k}
    /\ UNCHANGED <<pc, req, resp, pre, cursor, tasks, dest_exists, iter, conc>>

NextRace ==
    \/ DoCopy /\ InRaceScope(req')
    \/ DoMove /\ InRaceScope(req')
    \/ FanoutList \/ TaskGet \/ TaskPut \/ TaskDelete \/ FanoutRespond
    \/ ConcurrentDelete
    \/ Return

SpecRace == InitRace /\ [][NextRace]_vars

----------------------------------------------------------------------------
(* Requests with and without the credentials *)

NextAuth ==
    \/ DoUnauthorized /\ InPatchScope(req')
    \/ DoOptions /\ InPatchScope(req')
    \/ DoGet /\ InPatchScope(req')
    \/ DoPut /\ InPatchScope(req')
    \/ DoMkcol /\ InPatchScope(req')
    \/ DoDelete /\ InPatchScope(req')
    \/ Return

SpecAuth == Init /\ [][NextAuth]_vars

----------------------------------------------------------------------------
(* COPY and MOVE of a Collection to a destination inside or outside it *)

\* Depth-infinity and Depth-0 transfers of /a to /a/b and to /b
NestedRequests(method) ==
    { [Request(method, <<"/", "a">>) EXCEPT
           !.dest = << <<Origin>> \o path >>, !.depth = depth, !.overwrite = "T"] :
        path \in { <<"/", "a", "/", "b">>, <<"/", "b", "/">> },
        depth \in { NoValue, "0" } }

\* a transfer has not been made on this store yet: no key is deeper than the
\* children of a
Untouched == \A k \in DOMAIN bucket : Len(k) <= 3

CopyNested ==
    /\ pc = "idle" /\ Untouched
    /\ \E r \in NestedRequests("COPY") : CopyStep(r)

MoveNested ==
    /\ pc = "idle" /\ Untouched
    /\ \E r \in NestedRequests("MOVE") : MoveStep(r)

\* DELETE of /a or of /b
DeleteNested ==
    /\ pc = "idle"
    /\ \E url \in { <<"/", "a">>, <<"/", "b">> } :
        LET r == Request("DELETE", url)
        IN  Serve(r, handle_delete(bucket, r))

NextNested ==
    \/ CopyNested \/ MoveNested \/ DeleteNested
    \/ FanoutList \/ TaskGet \/ TaskPut \/ TaskDelete \/ FanoutRespond
    \/ Return

\* a step of the request that is being handled
HandlerStep ==
    FanoutList \/ TaskGet \/ TaskPut \/ TaskDelete \/ FanoutRespond \/ Return

\* The store answers its calls and the runtime runs a continuation that is
\* ready; requests need not arrive.
SpecNested == InitRace /\ [][NextNested]_vars /\ WF_vars(HandlerStep)

----------------------------------------------------------------------------
(* PUT of a child and DELETE of its Collection, store call by store call *)

\* the PUT requests of SpecInterleave: a child of /a
InterleavedPuts ==
    { [Request("PUT", url) EXCEPT !.body = c.body, !.ctype = c.ctype] :
          url \in { <<"/", "a", "/", "a">>, <<"/", "a", "/", "b">> },
          c \in PutContents }

\* the DELETE requests of SpecInterleave: /a
InterleavedDeletes == { Request("DELETE", url) : url \in { <<"/", "a">> } }

\* fetch is called for a PUT and for a DELETE before either has made a
\* store call
Arrive ==
    /\ pc = "idle"
    /\ conc.put \in {"none", "done"} /\ conc.del \in {"none", "done"}
    /\ \E p \in InterleavedPuts, d \in InterleavedDeletes :
           conc' = Handlers(p, d)
    /\ UNCHANGED <<bucket, pc, req, resp, pre, cursor, tasks, dest_exists,
                   removed, iter>>

\* handle_put: let dir = await bucket.head(dirpath), and the 409
PutHead ==
    /\ conc.put = "head"
    /\ LET dirpath == parent_dir(make_resource_path(conc.put_request.url))
       IN  conc' = IF dirpath # EmptyStr
                      /\ ~(Has(bucket, dirpath) /\ IsCollection(bucket[dirpath]))
                   THEN [conc EXCEPT !.put = "done", !.put_status = 409]
                   ELSE [conc EXCEPT !.put = "put"]
    /\ UNCHANGED <<bucket, pc, req, resp, pre, cursor, tasks, dest_exists,
                   removed, iter>>

\* handle_put: await bucket.put(resource_path, body, ...), and the 201
PutPut ==
    /\ conc.put = "put"
    /\ bucket' = BucketPut(bucket, make_resource_path(conc.put_request.url),
                           put_object(conc.put_request))
    /\ conc' = [conc EXCEPT !.put = "done", !.put_status = 201]
    /\ UNCHANGED <<pc, req, resp, pre, cursor, tasks, dest_exists,
                   removed, iter>>

\* handle_delete: let resource = await bucket.head(resource_path), and the 404
DeleteHead ==
    /\ conc.del = "head"
    /\ LET resource_path == make_resource_path(conc.del_request.url)
       IN  conc' = IF ~Has(bucket, resource_path)
                   THEN [conc EXCEPT !.del = "done", !.del_status = 404]
                   ELSE [conc EXCEPT !.del = "delete",
                             !.is_dir = IsCollection(bucket[resource_path])]
    /\ UNCHANGED <<bucket, pc, req, resp, pre, cursor, tasks, dest_exists,
                   removed, iter>>

\* handle_delete: await bucket.delete(resource_path), and the 204 of a member
DeleteSelf ==
    /\ conc.del = "delete"
    /\ bucket' = BucketDelete(bucket, {make_resource_path(conc.del_request.url)})
    /\ conc' = IF conc.is_dir
               THEN [conc EXCEPT !.del = "list", !.cursor = << >>]
               ELSE [conc EXCEPT !.del = "done", !.del_status = 204]
    /\ UNCHANGED <<pc, req, resp, pre, cursor, tasks, dest_exists,
                   removed, iter>>

\* handle_delete: r2_objects = await bucket.list({prefix, cursor}); with no
\* key on the page the loop goes on to its condition
DeleteList ==
    /\ conc.del = "list"
    /\ LET prefix == make_resource_path(conc.del_request.url) \o <<"/">>
           page   == BucketList(bucket, prefix, FALSE, conc.cursor)
       IN  conc' = IF page.objects # << >>
                   THEN [conc EXCEPT !.del = "batch", !.r2_objects = page]
                   ELSE IF page.truncated
                   THEN [conc EXCEPT !.r2_objects = page, !.cursor = page.cursor]
                   ELSE [conc EXCEPT !.r2_objects = page,
                             !.del = "done", !.del_status = 204]
    /\ UNCHANGED <<bucket, pc, req, resp, pre, cursor, tasks, dest_exists,
                   removed, iter>>

\* handle_delete: await bucket.delete(keys), then the loop condition and the
\* 204
DeleteBatch ==
    /\ conc.del = "batch"
    /\ LET objects == conc.r2_objects.objects
       IN  bucket' = BucketDelete(bucket,
                                  { objects[i] : i \in 1..Len(objects) })
    /\ conc' = IF conc.r2_objects.truncated
               THEN [conc EXCEPT !.del = "list",
                         !.cursor = conc.r2_objects.cursor]
               ELSE [conc EXCEPT !.del = "done", !.del_status = 204]
    /\ UNCHANGED <<pc, req, resp, pre, cursor, tasks, dest_exists,
                   removed, iter>>

\* between such pairs the Collection is made (again) by a MKCOL of its own
NextInterleave ==
    \/ /\ conc.put \in {"none", "done"} /\ conc.del \in {"none", "done"}
       /\ DoMkcol /\ req'.url = <<"/", "a">> /\ req'.body = << >>
    \/ Return
    \/ Arrive
    \/ PutHead \/ PutPut
    \/ DeleteHead \/ DeleteSelf \/ DeleteList \/ DeleteBatch

SpecInterleave == Init /\ [][NextInterleave]_vars

----------------------------------------------------------------------------
(* PUT, MKCOL and DELETE on names of which one begins with the other *)

\* URL pathnames of the requests of SpecFrame: the names a and ab, each with a
\* child
FramePaths ==
    { <<"/", "a">>, <<"/", "a", "/">>, <<"/", "a", "b">>,
      <<"/", "a", "/", "a">>, <<"/", "a", "b", "/", "a">> }

FramePut ==
    /\ pc = "idle"
    /\ \E url \in FramePaths :
        LET r == [Request("PUT", url) EXCEPT
                      !.body = <<1>>, !.ctype = "text/plain"]
        IN  Serve(r, handle_put(bucket, r))

FrameMkcol ==
    /\ pc = "idle"
    /\ \E url \in FramePaths :
        LET r == Request("MKCOL", url)
        IN  Serve(r, handle_mkcol(bucket, r))

FrameDelete ==
    /\ pc = "idle"
    /\ \E url \in FramePaths :
        LET r == Request("DELETE", url)
        IN  Serve(r, handle_delete(bucket, r))

NextFrame == FramePut \/ FrameMkcol \/ FrameDelete \/ Return

SpecFrame == Init /\ [][NextFrame]_vars

----------------------------------------------------------------------------
(* GET of one entry with every Range *)

\* Stores that hold one member "a" of each size up to MaxSize
RangeStores ==
    { [k \in { <<"a">> } |->
          R2Object([i \in 1..n |-> i], "text/plain", NoMeta)] : n \in 0..MaxSize }

\* the ranges bucket.get may hand back as object.range: none, {offset, length}
\* with one of them optional, {suffix}
Ranges ==
    { NoRange }
    \cup { Range(offset, length, NoNumber) :
               offset \in 0..MaxRange, length \in 0..MaxRange }
    \cup { Range(offset, NoNumber, NoNumber) : offset \in 0..MaxRange }
    \cup { Range(NoNumber, length, NoNumber) : length \in 0..MaxRange }
    \cup { Range(NoNumber, NoNumber, suffix) : suffix \in 0..MaxRange }

InitRange ==
    /\ bucket \in RangeStores
    /\ pc = "idle"
    /\ req = Request("NONE", <<"/">>)
    /\ resp = Response(200)
    /\ pre = << >>
    /\ cursor = << >>
    /\ tasks = << >>
    /\ dest_exists = FALSE
    /\ removed = {}
    /\ iter = NoIterator
    /\ conc = NoHandlers

GetRange ==
    /\ pc = "idle"
    /\ \E range \in Ranges :
        LET r == [Request("GET", <<"/", "a">>) EXCEPT !.range = range]
        IN  Serve(r, handle_get(bucket, r))

NextRange == GetRange \/ Return

SpecRange == InitRange /\ [][NextRange]_vars

----------------------------------------------------------------------------
(* listAll, call by call, over a store that does not change *)

\* Keys of the stores that are listed: a name, two levels under it, and two
\* more top-level names, one of which begins with the first.
ListKeys ==
    { <<"a">>, <<"a", "/", "a">>, <<"a", "/", "a", "/", "a">>,
      <<"a", "/", "b">>, <<"a", "b">>, <<"b">> }

\* Stores to list: every set of those keys in which each key has its parent;
\* a key with entries under it is a Collection, the others are members.
ListStores ==
    LET closed(K) == \A k \in K : parent_dir(k) = EmptyStr \/ parent_dir(k) \in K
        entry(K, k) ==
            IF \E j \in K : startsWith(j, k \o <<"/">>)
            THEN R2Object(<< >>, NoValue, CollectionMeta)
            ELSE R2Object(<<1>>, "text/plain", NoMeta)
    IN  { [k \in K |-> entry(K, k)] : K \in { K \in SUBSET ListKeys : closed(K) } }

\* the prefixes the handlers pass to listAll: '' for the root, else
\* resource_path + '/'
ListPrefixes == { EmptyStr, <<"a", "/">>, <<"a", "/", "a", "/">> }

InitList ==
    /\ bucket \in ListStores
    /\ iter \in { Iterator(prefix, isRecursive) :
                      prefix \in ListPrefixes, isRecursive \in BOOLEAN }
    /\ pc = "idle"
    /\ req = Request("NONE", <<"/">>)
    /\ resp = Response(200)
    /\ pre = << >>
    /\ cursor = << >>
    /\ tasks = << >>
    /\ dest_exists = FALSE
    /\ removed = {}
    /\ conc = NoHandlers

\* bucket.list({prefix, delimiter, cursor}) is called
ListCall ==
    /\ iter.state = "call"
    /\ iter' = [iter EXCEPT !.state = "wait",
                            !.calls = Append(@, iter.cursor)]
    /\ UNCHANGED <<bucket, pc, req, resp, pre, cursor, tasks, dest_exists,
                   removed, conc>>

\* the awaited bucket.list returns its page
ListReturn ==
    /\ iter.state = "wait"
    /\ LET page == BucketList(bucket, iter.prefix, ~iter.isRecursive,
                              iter.calls[Len(iter.calls)])
       IN  iter' = [iter EXCEPT !.state = "yield",
                                !.pages = Append(@, page),
                                !.r2_objects = page.objects]
    /\ UNCHANGED <<bucket, pc, req, resp, pre, cursor, tasks, dest_exists,
                   removed, conc>>

\* for (let object of r2_objects.objects) yield object
ListYield ==
    /\ iter.state = "yield"
    /\ iter.r2_objects # << >>
    /\ iter' = [iter EXCEPT !.yielded = Append(@, Head(iter.r2_objects)),
                            !.r2_objects = Tail(@)]
    /\ UNCHANGED <<bucket, pc, req, resp, pre, cursor, tasks, dest_exists,
                   removed, conc>>

\* A faulty ListLoop: the returned cursor is not taken over.
ListLoop_without_cursor ==
    /\ iter.state = "yield"
    /\ iter.r2_objects = << >>
    /\ iter' = [iter EXCEPT !.state =
                    IF iter.pages[Len(iter.pages)].truncated
                    THEN "call" ELSE "end"]
    /\ UNCHANGED <<bucket, pc, req, resp, pre, cursor, tasks, dest_exists,
                   removed, conc>>

\* if (r2_objects.truncated) cursor = r2_objects.cursor;
\* while (r2_objects.truncated)
ListLoop ==
    /\ iter.state = "yield"
    /\ iter.r2_objects = << >>
    /\ LET page == iter.pages[Len(iter.pages)]
       IN  iter' = IF page.truncated
                   THEN [iter EXCEPT !.state = "call", !.cursor = page.cursor]
                   ELSE [iter EXCEPT !.state = "end"]
    /\ UNCHANGED <<bucket, pc, req, resp, pre, cursor, tasks, dest_exists,
                   removed, conc>>

NextList == ListCall \/ ListReturn \/ ListYield \/ ListLoop

\* the store answers every list call and the consumer takes every object
SpecList == InitList /\ [][NextList]_vars /\ WF_vars(NextList)

----------------------------------------------------------------------------
(* Properties *)

\* a request of the given method has just been answered
Answered(method) == pc = "done" /\ req.method = method

\* the response to a GET of the key, asked without a trailing slash
GetKey(b, key) == handle_get(b, Request("GET", <<"/">> \o key)).resp

Keys(b) == DOMAIN b

\* the keys of b under path + "/"
Under(b, path) == { k \in DOMAIN b : startsWith(k, path \o <<"/">>) }

\* C1: after a PUT without conditional headers of body B with content type T
\* returns 201, a GET of the same path returns 200 with body B, Content-Type T
\* and Content-Length |B|.
C1_PutGetRoundTrip ==
    (Answered("PUT") /\ req.ifMatch = << >> /\ resp.status = 201) =>
        LET got == handle_get(bucket, Request("GET", req.url)).resp
        IN  /\ got.status = 200
            /\ got.body = req.body
            /\ got.contentLength = Len(req.body)
            /\ req.ctype # NoValue => got.contentType = req.ctype

\* C1 witness: a PUT with a content type replaces different content under an
\* existing Collection and is answered 201.
C1_Witness ==
    /\ Answered("PUT") /\ req.ifMatch = << >> /\ resp.status = 201
    /\ req.ctype # NoValue
    /\ make_resource_path(req.url) = <<"a", "/", "a">>
    /\ Has(pre, <<"a">>) /\ IsCollection(pre[<<"a">>])
    /\ Has(pre, <<"a", "/", "a">>)
    /\ pre[<<"a", "/", "a">>].body # req.body

\* the key a request is to create: the path of PUT / MKCOL, the normalized
\* destination of COPY / MOVE
TargetKey(r) ==
    IF r.method \in {"COPY", "MOVE"} THEN destination_of(r)
    ELSE make_resource_path(r.url)

\* PUT to a path without trailing slash, MKCOL to a path without entry,
\* COPY / MOVE with a Destination
CreatesAtTarget(b, r) ==
    \/ r.method = "PUT" /\ ~endsWith(r.url, "/")
    \/ r.method = "MKCOL" /\ ~Has(b, make_resource_path(r.url))
    \/ r.method \in {"COPY", "MOVE"} /\ has_destination(r)

\* a GET URL without trailing slash names the key
Addressable(key) == key # EmptyStr /\ ~endsWith(key, "/")

\* C2: a PUT, a MKCOL to a path without entry, and a COPY or MOVE with a
\* Destination yield 409 whenever the parent of the target is not the root and
\* has no entry; the store is unchanged and a GET of the target (where a GET
\* URL can name it) returns 404.
C2_ParentMissing ==
    ( /\ pc = "done"
      /\ req.method \in {"PUT", "MKCOL", "COPY", "MOVE"}
      /\ CreatesAtTarget(pre, req)
      /\ parent_dir(TargetKey(req)) # EmptyStr
      /\ ~Has(pre, parent_dir(TargetKey(req))) )
    => /\ resp.status = 409
       /\ bucket = pre
       /\ Addressable(TargetKey(req))
              => GetKey(bucket, TargetKey(req)).status = 404

\* C3: MKCOL on a path that has an entry yields 405 and leaves the store
\* unchanged, and so does the same MKCOL repeated.
C3_MkcolOnExisting ==
    (Answered("MKCOL") /\ Has(pre, make_resource_path(req.url))) =>
        /\ resp.status = 405
        /\ bucket = pre
        /\ handle_mkcol(bucket, req).resp.status = 405
        /\ handle_mkcol(bucket, req).bucket = pre

\* C3 witness: MKCOL is answered on a path that holds a member.
C3_Witness ==
    /\ Answered("MKCOL")
    /\ Has(pre, make_resource_path(req.url))
    /\ ~IsCollection(pre[make_resource_path(req.url)])
    /\ resp.status = 405

\* C4: after DELETE returns 204 for a Collection at P no entry remains at P or
\* under P + "/"; after DELETE returns 204 for the root the store is empty.
C4_DeleteComplete ==
    (Answered("DELETE") /\ resp.status = 204) =>
        LET P == make_resource_path(req.url)
        IN  /\ P = EmptyStr => Keys(bucket) = {}
            /\ (P # EmptyStr /\ IsCollection(pre[P]))
                   => ~Has(bucket, P) /\ Under(bucket, P) = {}

\* C4 witness: a Collection whose descendants span more than one listing page
\* has been deleted.
C4_Witness ==
    /\ Answered("DELETE") /\ resp.status = 204
    /\ make_resource_path(req.url) = <<"a">>
    /\ IsCollection(pre[<<"a">>])
    /\ Cardinality(Under(pre, <<"a">>)) > PageLimit

\* C5: after COPY of a member S to D returns 201 or 204, GET S and GET D both
\* return 200 with S's bytes, D has S's content type and custom metadata, and
\* the entry at S is unchanged.
C5_CopyMember ==
    ( /\ Answered("COPY") /\ resp.status \in {201, 204}
      /\ ~IsCollection(pre[make_resource_path(req.url)]) )
    => LET S == make_resource_path(req.url)
           D == destination_of(req)
       IN  /\ GetKey(bucket, S).status = 200
           /\ GetKey(bucket, S).body = pre[S].body
           /\ GetKey(bucket, D).status = 200
           /\ GetKey(bucket, D).body = pre[S].body
           /\ bucket[D].contentType = pre[S].contentType
           /\ bucket[D].customMetadata = pre[S].customMetadata
           /\ bucket[S] = pre[S]

\* neither path is the other or an ancestor of the other
Disjoint(S, D) ==
    /\ ~startsWith(D \o <<"/">>, S \o <<"/">>)
    /\ ~startsWith(S \o <<"/">>, D \o <<"/">>)

\* the key D/x for the key S/x
Image(S, D, k) == D \o sliceFrom(k, Len(S))

\* C6: after COPY with Depth infinity (or no Depth) of a Collection S to a
\* destination D without entry, neither an ancestor of the other, the response
\* is 201, D is a Collection, every key S/x has its copy at D/x, and every
\* entry at or under S is unchanged.
C6_CopyTree ==
    ( /\ Answered("COPY")
      /\ has_destination(req)
      /\ depth_of(req) = "infinity"
      /\ Has(pre, make_resource_path(req.url))
      /\ IsCollection(pre[make_resource_path(req.url)])
      /\ ~Has(pre, destination_of(req))
      /\ Disjoint(make_resource_path(req.url), destination_of(req))
      /\ resp.status \in {201, 204} )
    => LET S == make_resource_path(req.url)
           D == destination_of(req)
       IN  /\ resp.status = 201
           /\ Has(bucket, D) /\ IsCollection(bucket[D])
           /\ \A k \in Under(pre, S) :
                  Has(bucket, Image(S, D, k)) /\ bucket[Image(S, D, k)] = pre[k]
           /\ \A k \in Under(pre, S) \cup {S} :
                  Has(bucket, k) /\ bucket[k] = pre[k]

\* C7: after MOVE of S to D returns 201 or 204, neither an ancestor of the
\* other, GET S returns 404 and GET D returns S's bytes; for a Collection moved
\* with Depth infinity nothing remains at or under S and every key S/x is
\* present as D/x with its body and metadata.
C7_MoveDestructive ==
    ( /\ Answered("MOVE") /\ resp.status \in {201, 204}
      /\ Disjoint(make_resource_path(req.url), destination_of(req)) )
    => LET S == make_resource_path(req.url)
           D == destination_of(req)
       IN  /\ GetKey(bucket, S).status = 404
           /\ GetKey(bucket, D).status = 200
           /\ GetKey(bucket, D).body = pre[S].body
           /\ (IsCollection(pre[S]) /\ depth_of(req) = "infinity")
                  => /\ Under(bucket, S) = {}
                     /\ \A k \in Under(pre, S) :
                            /\ Has(bucket, Image(S, D, k))
                            /\ bucket[Image(S, D, k)] = pre[k]

HrefSet(response) == { response.hrefs[i] : i \in 1..Len(response.hrefs) }

\* C8: for an existing target, the hrefs answered by PROPFIND at Depth 1 are
\* among those answered at Depth infinity, and at Depth 0 the multistatus has
\* exactly one response, the target's own ("/" for the root).
C8_DepthMonotone ==
    (Answered("PROPFIND") /\ resp.status = 207) =>
        LET path == make_resource_path(req.url)
            at(depth) ==
                handle_propfind(bucket, [req EXCEPT !.depth = depth]).resp
        IN  /\ at("1").status = 207 /\ at("infinity").status = 207
            /\ HrefSet(at("1")) \subseteq HrefSet(at("infinity"))
            /\ req.depth = "1" => HrefSet(resp) \subseteq HrefSet(at("infinity"))
            /\ req.depth = "0" => resp = at("0")
            /\ Len(at("0").hrefs) = 1
            /\ at("0").hrefs[1] \in
                   IF path = EmptyStr THEN { <<"/">> }
                   ELSE { <<"/">> \o path, <<"/">> \o path \o <<"/">> }

\* C8 witness: a Depth 1 PROPFIND of a Collection has answered fewer hrefs than
\* Depth infinity answers, and more than the target's own.
C8_Witness ==
    /\ Answered("PROPFIND") /\ resp.status = 207 /\ req.depth = "1"
    /\ Cardinality(HrefSet(resp)) > 1
    /\ HrefSet(resp) #
           HrefSet(handle_propfind(bucket,
                                   [req EXCEPT !.depth = "infinity"]).resp)

\* C9: between requests, every stored entry's parent path is the root or
\* holds a Collection.
C9_Hierarchy ==
    pc \in {"idle", "done"} =>
        \A k \in Keys(bucket) :
            \/ parent_dir(k) = EmptyStr
            \/ Has(bucket, parent_dir(k)) /\ IsCollection(bucket[parent_dir(k)])

\* C10: a PUT, a MKCOL, or a COPY / MOVE destination whose parent path holds a
\* member yields 409 and creates nothing.
C10_MemberParent ==
    ( /\ pc = "done"
      /\ req.method \in {"PUT", "MKCOL", "COPY", "MOVE"}
      /\ CreatesAtTarget(pre, req)
      /\ parent_dir(TargetKey(req)) # EmptyStr
      /\ Has(pre, parent_dir(TargetKey(req)))
      /\ ~IsCollection(pre[parent_dir(TargetKey(req))]) )
    => /\ resp.status = 409
       /\ Keys(bucket) \subseteq Keys(pre)

\* C11: the store never holds an entry under the empty key, the root's.
C11_RootNeverStored == ~Has(bucket, EmptyStr)

\* C12: whenever PUT, MKCOL, DELETE, PROPPATCH or COPY is answered with a 4xx
\* status the store is as it was when the request arrived.
C12_RejectsUntouched ==
    ( /\ pc = "done"
      /\ req.method \in {"PUT", "MKCOL", "DELETE", "PROPPATCH", "COPY"}
      /\ resp.status \in 400..499 )
    => bucket = pre

\* C12 witness: a PROPPATCH of a path without entry has been answered 404
\* while the store holds other entries.
C12_Witness ==
    /\ Answered("PROPPATCH") /\ resp.status = 404
    /\ req.set # << >>
    /\ Keys(pre) # {}

\* C13: whenever MOVE is answered 400, 404, 409 or 412 the store is as it was
\* when the request arrived.
C13_MoveRejectsUntouched ==
    (Answered("MOVE") /\ resp.status \in {400, 404, 409, 412}) => bucket = pre

\* a COPY or MOVE has been answered 201 or 204
Transferred ==
    /\ pc = "done" /\ req.method \in {"COPY", "MOVE"}
    /\ resp.status \in {201, 204}

\* C14: a successful COPY or MOVE is answered 201 exactly when the normalized
\* destination held no entry when the request arrived, and 204 exactly when
\* it held one.
C14_SuccessStatus ==
    Transferred =>
        /\ resp.status = 201 <=> ~Has(pre, destination_of(req))
        /\ resp.status = 204 <=> Has(pre, destination_of(req))

\* C14 witness: a Depth-infinity MOVE of a Collection with a descendant onto
\* an existing destination has been answered 204.
C14_Witness ==
    /\ Transferred /\ req.method = "MOVE" /\ resp.status = 204
    /\ IsCollection(pre[make_resource_path(req.url)])
    /\ depth_of(req) = "infinity"
    /\ Under(pre, make_resource_path(req.url)) # {}

\* the request names a destination that holds an entry and whose parent is
\* the root or holds an entry
OntoExisting ==
    /\ pc = "done" /\ req.method \in {"COPY", "MOVE"}
    /\ has_destination(req)
    /\ Has(pre, destination_of(req))
    /\ \/ parent_dir(destination_of(req)) = EmptyStr
       \/ Has(pre, parent_dir(destination_of(req)))

C16_MoveDefaultOverwrite ==
    ( /\ OntoExisting /\ req.method = "MOVE" /\ req.overwrite = NoValue
      /\ Has(pre, make_resource_path(req.url))
      /\ make_resource_path(req.url) # destination_of(req)
      /\ IsCollection(pre[make_resource_path(req.url)])
             => depth_of(req) \in {"0", "infinity"} )
    => /\ resp.status = 204
       /\ Has(bucket, destination_of(req))

\* C17: a MOVE of an existing source whose normalized destination equals its
\* normalized path is answered 400, whatever Overwrite is, and changes
\* nothing.
C17_NoopMove ==
    ( /\ Answered("MOVE") /\ has_destination(req)
      /\ Has(pre, make_resource_path(req.url))
      /\ destination_of(req) = make_resource_path(req.url) )
    => resp.status = 400 /\ bucket = pre

\* C18: COPY and MOVE without Destination header, or with one that is no
\* absolute URL, are answered 400 (the handler does not throw) and leave the
\* store unchanged.
C18_BadDestination ==
    ( /\ pc = "done" /\ req.method \in {"COPY", "MOVE"}
      /\ ~has_destination(req) )
    => resp.status = 400 /\ bucket = pre

\* C19: the response to HEAD has the status and the headers of the response
\* to GET for the same path, headers and store, and an empty body; HEAD leaves
\* the store unchanged.
C19_HeadIsGet ==
    Answered("HEAD") =>
        LET got == handle_get(pre, [req EXCEPT !.method = "GET"])
        IN  /\ resp.status = got.resp.status
            /\ resp.contentType = got.resp.contentType
            /\ resp.contentLength = got.resp.contentLength
            /\ resp.contentRange = got.resp.contentRange
            /\ resp.body = << >>
            /\ bucket = pre /\ got.bucket = pre

\* C19 witness: HEAD has been answered for a member with a body, read with a
\* Range header.
C19_Witness ==
    /\ Answered("HEAD") /\ resp.status = 206
    /\ req.range # NoRange
    /\ pre[make_resource_path(req.url)].body # << >>
    /\ resp.contentLength = 1

\* s is a run of consecutive elements of t
IsPartOf(s, t) ==
    \E i \in 1..(Len(t) + 1), j \in 0..Len(t) : s = SubSeq(t, i, j)

\* C20: GET on a path without trailing slash is answered 404 exactly when the
\* key has no entry, 412 exactly when it has one and the If-Match header does
\* not name its entity tag, and otherwise 200 or 206 with the entry's body.
C20_GetStatuses ==
    (Answered("GET") /\ ~endsWith(req.url, "/")) =>
        LET key      == make_resource_path(req.url)
            declined == /\ Has(pre, key)
                        /\ req.ifMatch # << >>
                        /\ req.ifMatch[1] # pre[key].body
        IN  /\ resp.status = 404 <=> ~Has(pre, key)
            /\ resp.status = 412 <=> declined
            /\ resp.status \in {200, 206, 404, 412}
            /\ resp.status = 200 => resp.body = pre[key].body
            /\ resp.status = 206 => IsPartOf(resp.body, pre[key].body)

\* C20 witness: a GET whose If-Match names another entity tag than the
\* entry's has been answered 412.
C20_Witness ==
    /\ Answered("GET") /\ ~endsWith(req.url, "/")
    /\ Has(pre, make_resource_path(req.url))
    /\ req.ifMatch # << >>
    /\ resp.status = 412

\* C21: PROPFIND on the root is answered 207 in every store state; on a
\* non-root path without entry 404; on a Collection (the root included) with
\* a Depth other than 0, 1, infinity 403; without Depth header as with Depth
\* infinity; on a member 207 with exactly one response whatever Depth is.
C21_PropfindStatus ==
    Answered("PROPFIND") =>
        LET path      == make_resource_path(req.url)
            known     == req.depth \in {NoValue, "0", "1", "infinity"}
            present   == path = EmptyStr \/ Has(pre, path)
            is_member == path # EmptyStr /\ Has(pre, path)
                         /\ ~IsCollection(pre[path])
        IN  /\ resp.status \in {207, 403, 404}
            /\ (path = EmptyStr /\ known) => resp.status = 207
            /\ ~present => resp.status = 404
            /\ (present /\ ~is_member /\ known) => resp.status = 207
            /\ (present /\ ~is_member /\ ~known) => resp.status = 403
            /\ req.depth = NoValue =>
                   resp = handle_propfind(pre, [req EXCEPT
                                                   !.depth = "infinity"]).resp
            /\ is_member => resp.status = 207 /\ Len(resp.hrefs) = 1

\* C21 witness: a PROPFIND with Depth 2 of a stored Collection that has a
\* descendant has been answered 403.
C21_Witness ==
    /\ Answered("PROPFIND") /\ req.depth = "2"
    /\ make_resource_path(req.url) # EmptyStr
    /\ Has(pre, make_resource_path(req.url))
    /\ IsCollection(pre[make_resource_path(req.url)])
    /\ Under(pre, make_resource_path(req.url)) # {}
    /\ resp.status = 403

\* the URL of a child named b of the path
ChildUrl(path) ==
    IF path = EmptyStr THEN <<"/", "b">> ELSE <<"/">> \o path \o <<"/", "b">>

\* C22: MKCOL on a path without entry whose parent is the root or has an
\* entry is answered 201 and stores exactly one new entry, at the normalized
\* path, with empty body and the collection marker, every other key as it
\* was; the outcome is the same with and without request body, never 415;
\* a following PUT of a child of that path is answered 201.
C22_MkcolCreates ==
    ( /\ Answered("MKCOL")
      /\ ~Has(pre, make_resource_path(req.url))
      /\ \/ parent_dir(make_resource_path(req.url)) = EmptyStr
         \/ Has(pre, parent_dir(make_resource_path(req.url))) )
    => LET path == make_resource_path(req.url)
       IN  /\ resp.status = 201
           /\ Keys(bucket) = Keys(pre) \cup {path}
           /\ bucket[path].body = << >>
           /\ IsCollection(bucket[path])
           /\ \A k \in Keys(pre) : bucket[k] = pre[k]
           /\ \A body \in MkcolBodies :
                  handle_mkcol(pre, [req EXCEPT !.body = body])
                      = Outcome(bucket, resp)
           /\ \A c \in PutContents :
                  handle_put(bucket,
                             [Request("PUT", ChildUrl(path)) EXCEPT
                                  !.body = c.body, !.ctype = c.ctype])
                      .resp.status = 201

\* C22 witness: a MKCOL that carries a body has created a Collection under an
\* existing one, in a store that holds other entries.
C22_Witness ==
    /\ Answered("MKCOL") /\ req.body # << >>
    /\ make_resource_path(req.url) = <<"a", "/", "a">>
    /\ ~Has(pre, <<"a", "/", "a">>)
    /\ Has(pre, <<"a">>) /\ Has(pre, <<"b">>)
    /\ resp.status = 201

\* the methods of the Allow header
Allowed(response) == { response.allow[i] : i \in 1..Len(response.allow) }

\* C23: each of OPTIONS, HEAD, GET, PUT, DELETE, MKCOL, PROPFIND, PROPPATCH,
\* COPY and MOVE is answered by its own handler and by no other; every other
\* method is answered 405 with the Allow and DAV headers and leaves the store
\* alone; OPTIONS is answered 204 with the same two headers; the Allow list
\* names exactly the methods that have a handler.
C23_Dispatch ==
    LET handled == { "OPTIONS", "HEAD", "GET", "PUT", "DELETE", "MKCOL",
                     "PROPFIND", "PROPPATCH", "COPY", "MOVE" }
        answer  == Outcome(bucket, resp)
    IN  /\ pc \in {"list", "join"} =>
               \/ req.method = "COPY" /\ copy_fans_out(pre, req)
               \/ req.method = "MOVE" /\ move_fans_out(pre, req)
        /\ pc = "done" =>
            /\ req.method = "OPTIONS" =>
                   /\ resp.status = 204 /\ bucket = pre
                   /\ Allowed(resp) = handled /\ Len(resp.allow) = 10
                   /\ resp.dav = "1, 3"
            /\ req.method = "HEAD" => answer = handle_head(pre, req)
            /\ req.method = "GET" => answer = handle_get(pre, req)
            /\ req.method = "PUT" => answer = handle_put(pre, req)
            /\ req.method = "DELETE" => answer = handle_delete(pre, req)
            /\ req.method = "MKCOL" => answer = handle_mkcol(pre, req)
            /\ req.method = "PROPFIND" => answer = handle_propfind(pre, req)
            /\ req.method = "PROPPATCH" => answer = handle_proppatch(pre, req)
            /\ req.method = "COPY" =>
                   IF copy_fans_out(pre, req)
                   THEN resp = Response(success_status(
                                            Has(pre, destination_of(req))))
                   ELSE answer = copy_outcome(pre, req)
            /\ req.method = "MOVE" =>
                   IF move_fans_out(pre, req)
                   THEN resp = Response(success_status(
                                            Has(pre, destination_of(req))))
                   ELSE answer = move_outcome(pre, req)
            /\ req.method \notin handled =>
                   /\ resp.status = 405 /\ bucket = pre
                   /\ Allowed(resp) = handled /\ Len(resp.allow) = 10
                   /\ resp.dav = "1, 3"
            /\ (req.method \in handled /\ req.method # "OPTIONS") =>
                   resp.allow = << >> /\ resp.dav = NoValue

\* C23 witness: a method without handler has been answered 405 with the two
\* headers while the store holds entries.
C23_Witness ==
    /\ pc = "done" /\ req.method = "LOCK"
    /\ resp.status = 405 /\ resp.allow # << >> /\ resp.dav # NoValue
    /\ Keys(pre) # {}

\* C24: whenever PUT is answered 201 the store has accepted the write and
\* the key holds exactly the request body; a PUT whose conditional headers
\* make the store decline the write is not answered 201.
C24_PutAccepted ==
    Answered("PUT") =>
        LET path == make_resource_path(req.url)
        IN  /\ resp.status = 201 =>
                   /\ put_accepted(pre, path, req)
                   /\ Has(bucket, path)
                   /\ bucket[path].body = req.body
            /\ ~put_accepted(pre, path, req) => resp.status # 201

\* the keys of b at the path and under it
AtOrUnder(b, path) == { k \in Keys(b) : k = path } \cup Under(b, path)

\* the source entries a MOVE or COPY is to transfer: the source, and with
\* Depth infinity everything under a Collection
SourceEntries(b, r) ==
    LET S == make_resource_path(r.url)
    IN  IF IsCollection(b[S]) /\ depth_of(r) = "infinity"
        THEN {S} \cup Under(b, S) ELSE {S}

\* a MOVE that passed its checks onto a destination that held an entry
MoveOntoExisting ==
    /\ req.method = "MOVE" /\ pc # "idle"
    /\ move_precheck(pre, req) = 0
    /\ Has(pre, destination_of(req))

\* C25: a MOVE onto an existing destination D deletes the entry at D and, if
\* D is a Collection, every entry under D + "/" before it writes any source
\* content to D (while the MOVE runs, every entry at or under D has been put
\* by the MOVE itself); after the MOVE has succeeded the entries at and under
\* D are exactly the images of the moved source entries, and no entry that
\* was under D before is left.
C25_MoveReplaces ==
    MoveOntoExisting =>
        LET S == make_resource_path(req.url)
            D == destination_of(req)
            images == { Image(S, D, k) : k \in SourceEntries(pre, req) }
            \* what the MOVE is to clear: D, and what is under a Collection
            cleared(b) == IF IsCollection(pre[D]) THEN AtOrUnder(b, D)
                          ELSE { k \in Keys(b) : k = D }
        IN  /\ pc \in {"list", "join"} =>
                   \A key \in cleared(bucket) :
                       \E k \in DOMAIN tasks :
                           /\ tasks[k].phase \in {"delete", "done"}
                           /\ fanout_target(D, fanout_prefix, k) = key
            /\ (pc = "done" /\ resp.status \in {201, 204}) =>
                   /\ cleared(bucket) \subseteq images
                   /\ \A k \in SourceEntries(pre, req) :
                          /\ Has(bucket, Image(S, D, k))
                          /\ bucket[Image(S, D, k)] = pre[k]

\* a MOVE that passed its checks is running or has just been answered
Moving == req.method = "MOVE" /\ pc # "idle" /\ move_precheck(pre, req) = 0

\* a source key of the running MOVE leaves the store only in a step of its
\* own promise, after that promise's put
DeleteAfterPut ==
    (Moving /\ pc \in {"list", "join"}) =>
        \A k \in DOMAIN tasks :
            (Has(bucket, k) /\ ~Has(bucket', k)) => tasks[k].phase = "delete"

\* every source entry's content is at its source key or at its destination
\* key
SourceKept ==
    \A k \in SourceEntries(pre, req) :
        LET image == Image(make_resource_path(req.url), destination_of(req), k)
        IN  \/ Has(bucket, k) /\ bucket[k] = pre[k]
            \/ Has(bucket, image) /\ bucket[image] = pre[k]

\* C26: in a MOVE the source key of an entry is deleted only after the put of
\* its content to the destination key has completed; so, source and
\* destination being apart, in every state of the MOVE each source entry's
\* content is stored at its source key or at its destination key.
C26_MoveKeepsContent ==
    /\ [][DeleteAfterPut]_vars
    /\ []((Moving /\ Disjoint(make_resource_path(req.url),
                               destination_of(req))) => SourceKept)

\* a COPY or MOVE that passed the checks made before Depth is read has been
\* answered
TransferAnswered ==
    /\ pc = "done" /\ req.method \in {"COPY", "MOVE"}
    /\ has_destination(req)
    /\ IF req.method = "COPY"
       THEN copy_precheck(pre, [req EXCEPT !.depth = "0"]) = 0
       ELSE move_precheck(pre, req) = 0

\* C27: for a Collection source, Depth 0 transfers the marker alone (no key
\* under destination + "/" is written; a MOVE deletes no source key but the
\* marker's), Depth infinity or no Depth header transfers the marker and every
\* descendant, every other Depth, 1 included, is answered 400; for a member
\* source the Depth header changes nothing.
C27_DepthSelection ==
    TransferAnswered =>
        LET S == make_resource_path(req.url)
            D == destination_of(req)
            tree == {S} \cup Under(pre, S)
        IN  IF IsCollection(pre[S])
            THEN /\ req.depth = "0" =>
                        /\ resp.status \in {201, 204}
                        /\ Has(bucket, D) /\ bucket[D] = pre[S]
                        /\ \A k \in Under(bucket, D) :
                               Has(pre, k) /\ bucket[k] = pre[k]
                        /\ req.method = "MOVE" =>
                               { k \in tree : ~Has(bucket, k) } = {S}
                 /\ req.depth \in {NoValue, "infinity"} =>
                        /\ resp.status \in {201, 204}
                        /\ \A k \in tree :
                               /\ Has(bucket, Image(S, D, k))
                               /\ bucket[Image(S, D, k)] = pre[k]
                        /\ req.method = "MOVE" =>
                               \A k \in tree : ~Has(bucket, k)
                 /\ req.depth \notin {NoValue, "0", "infinity"} =>
                        resp.status = 400
            ELSE \A depth \in DepthValues :
                     Outcome(bucket, resp) =
                         IF req.method = "COPY"
                         THEN copy_outcome(pre, [req EXCEPT !.depth = depth])
                         ELSE move_outcome(pre, [req EXCEPT !.depth = depth])

\* the fan-out of a COPY or MOVE is running or has just been answered
FannedOut ==
    \/ req.method = "COPY" /\ pc # "idle" /\ copy_fans_out(pre, req)
    \/ req.method = "MOVE" /\ pc # "idle" /\ move_fans_out(pre, req)

\* every promise of the fan-out has run to its end
AllSettled == \A k \in DOMAIN tasks : tasks[k].phase = "done"

\* C28: when a listed descendant has been deleted by another request before
\* its get ran, the fan-out skips it (nothing is put for it), every other
\* listed entry is still copied to its destination key (and, in a MOVE, its
\* source key deleted), and the response is the 201 / 204 of success.
C28_BestEffort ==
    FannedOut =>
        LET S == make_resource_path(req.url)
            D == destination_of(req)
            \* the store as the fan-out found it
            base == IF req.method = "MOVE" THEN move_cleared(pre, req) ELSE pre
        IN  /\ (pc = "join" /\ AllSettled) =>
                   \A k \in DOMAIN tasks :
                       LET target == Image(S, D, k)
                       IN  IF k \in removed
                           THEN /\ Has(bucket, target) <=> Has(base, target)
                                /\ Has(base, target) =>
                                       bucket[target] = base[target]
                           ELSE /\ Has(bucket, target)
                                /\ bucket[target] = pre[k]
                                /\ req.method = "MOVE" => ~Has(bucket, k)
            /\ pc = "done" =>
                   resp.status = IF Has(pre, D) THEN 204 ELSE 201

\* C28 witness: a MOVE has been answered after one listed descendant was
\* deleted by another request and another one was moved.
C28_Witness ==
    /\ FannedOut /\ pc = "done" /\ req.method = "MOVE"
    /\ removed = { <<"a", "/", "a">> }
    /\ Has(bucket, <<"b", "/", "b">>)
    /\ ~Has(bucket, <<"b", "/", "a">>)
    /\ resp.status \in {201, 204}

\* the step in which a COPY, MOVE or DELETE makes its response
Responds ==
    /\ pc # "done" /\ pc' = "done"
    /\ req'.method \in {"COPY", "MOVE", "DELETE"}

\* C29: COPY, MOVE and DELETE make their response only when every get, put
\* and delete they issued for an entry has completed: no promise of the
\* fan-out is unsettled in the step that responds, none is left after it, and
\* a DELETE responds with all its deletes applied.
C29_JoinBeforeResponse ==
    [][ Responds =>
            /\ AllSettled
            /\ tasks' = << >>
            /\ req'.method = "DELETE" =>
                   bucket' = handle_delete(bucket, req').bucket ]_vars

\* C29 witness: a Depth-infinity MOVE of a Collection with two descendants
\* has been answered, and the source is gone.
C29_Witness ==
    /\ FannedOut /\ pc = "done" /\ req.method = "MOVE"
    /\ Cardinality(Under(pre, make_resource_path(req.url))) >= 2
    /\ Under(bucket, make_resource_path(req.url)) = {}
    /\ ~Has(bucket, make_resource_path(req.url))

\* the promises made for listed objects (not the one for the source itself)
\* that have not run to their end
InFlight ==
    { k \in DOMAIN tasks :
          k # make_resource_path(req.url) /\ tasks[k].phase # "done" }

\* listAll issues the bucket.list call for a page after the first
ListsNextPage ==
    /\ pc = "list" /\ cursor # << >>
    /\ pc' = "join" \/ cursor' # cursor

\* C30: in a recursive COPY or MOVE the list call for page n + 1 is issued
\* only when every get, put and delete for the entries of page n has
\* completed, so never more entries than one page holds are in flight.
C30_PageBarrier ==
    /\ [][ListsNextPage => InFlight = {}]_vars
    /\ [](Cardinality(InFlight) <= PageLimit)

\* the entries a listing of the prefix has to yield: in shallow mode the keys
\* with nothing but a name after the prefix, in recursive mode every key that
\* starts with the prefix
Listed(b, prefix, isRecursive) ==
    { k \in DOMAIN b :
        /\ startsWith(k, prefix)
        /\ isRecursive \/ \A i \in (Len(prefix) + 1)..Len(k) : k[i] # "/" }

\* the list calls of the iterator are made one after another, the first
\* without cursor, each later one with the cursor of the page before it, and
\* none after a page that was not truncated
CallsInSequence ==
    /\ Len(iter.calls) = Len(iter.pages) + (IF iter.state = "wait" THEN 1 ELSE 0)
    /\ \A i \in 1..Len(iter.calls) :
           IF i = 1 THEN iter.calls[i] = << >>
           ELSE /\ iter.pages[i - 1].truncated
                /\ iter.calls[i] = iter.pages[i - 1].cursor

\* what has been yielded so far is without repetition and from the listing;
\* at the end it is the whole listing, and the last page was not truncated
YieldsOnce ==
    LET expected == Listed(bucket, iter.prefix, iter.isRecursive)
    IN  /\ \A i, j \in 1..Len(iter.yielded) :
               iter.yielded[i] = iter.yielded[j] => i = j
        /\ \A i \in 1..Len(iter.yielded) : iter.yielded[i] \in expected
        /\ iter.state = "end" =>
               /\ { iter.yielded[i] : i \in 1..Len(iter.yielded) } = expected
               /\ ~iter.pages[Len(iter.pages)].truncated
               /\ iter.yielded = listAll(bucket, iter.prefix, iter.isRecursive)

\* C31: over a store that does not change, listAll makes its list calls one
\* after another, the first without cursor and each later one with the cursor
\* the previous page returned, yields every entry of the listing exactly once
\* (shallow: the direct children of the prefix; recursive: every key with the
\* prefix), and ends after the first page that is not truncated.
C31_ListingIterator ==
    /\ [](iter.state # "none" => CallsInSequence /\ YieldsOnce)
    /\ <>(iter.state = "end")

\* C31 witness: a shallow listing of "a/" has ended after three pages, one of
\* which held only a rolled-up prefix; it yielded two of the three keys there.
C31_Witness ==
    /\ iter.state = "end" /\ ~iter.isRecursive /\ iter.prefix = <<"a", "/">>
    /\ Len(iter.pages) = 3
    /\ iter.yielded = << <<"a", "/", "a">>, <<"a", "/", "b">> >>
    /\ Has(bucket, <<"a", "/", "a", "/", "a">>)

\* C32: a DELETE of the non-root path P changes nothing outside P and the
\* keys that start with P + "/": every other entry is kept as it was (also
\* one whose key begins with P without the "/"), nothing is added, a DELETE
\* of a member removes exactly its key, and a refused DELETE changes nothing.
C32_DeleteFrame ==
    (Answered("DELETE") /\ make_resource_path(req.url) # EmptyStr) =>
        LET P == make_resource_path(req.url)
        IN  /\ \A k \in Keys(pre) :
                   (k # P /\ ~startsWith(k, P \o <<"/">>)) =>
                       Has(bucket, k) /\ bucket[k] = pre[k]
            /\ Keys(bucket) \subseteq Keys(pre)
            /\ (resp.status = 204 /\ ~IsCollection(pre[P])) =>
                   Keys(bucket) = Keys(pre) \ {P}
            /\ resp.status # 204 => bucket = pre

\* C32 witness: the Collection a with its child has been deleted, and the
\* Collection ab with its child is still there.
C32_Witness ==
    /\ Answered("DELETE") /\ resp.status = 204
    /\ make_resource_path(req.url) = <<"a">>
    /\ IsCollection(pre[<<"a">>]) /\ Has(pre, <<"a", "/", "a">>)
    /\ Keys(bucket) = { <<"a", "b">>, <<"a", "b", "/", "a">> }

\* a metadata map overwritten by the pairs of a set-list, in their order
RECURSIVE Overwritten(_, _)
Overwritten(map, set) ==
    IF set = << >> THEN map
    ELSE Overwritten([map EXCEPT ![Head(set)[1]] = Head(set)[2]], Tail(set))

\* a metadata map without the names of a remove-list
Stripped(map, remove) ==
    [n \in DOMAIN map |-> IF n \in remove THEN NoValue ELSE map[n]]

\* C33: after a PROPPATCH with set-map S and remove-list R is answered 207,
\* the entry's custom metadata is its old map overwritten by S and then
\* stripped of the names in R, its body and content type are unchanged, no
\* other key has changed, and the multistatus holds one response for the
\* entry per name in S and per name in R.
C33_ProppatchMerge ==
    (Answered("PROPPATCH") /\ resp.status = 207) =>
        LET P == make_resource_path(req.url)
            setNames == { req.set[i][1] : i \in 1..Len(req.set) }
        IN  /\ Has(pre, P) /\ Keys(bucket) = Keys(pre)
            /\ \A k \in Keys(pre) \ {P} : bucket[k] = pre[k]
            /\ bucket[P].body = pre[P].body
            /\ bucket[P].contentType = pre[P].contentType
            /\ bucket[P].customMetadata =
                   Stripped(Overwritten(pre[P].customMetadata, req.set),
                            req.remove)
            /\ Len(resp.hrefs) = Cardinality(setNames) + Cardinality(req.remove)
            /\ \A i \in 1..Len(resp.hrefs) : resp.hrefs[i] = <<"/">> \o P

\* C33 witness: a PROPPATCH that sets and removes the same name has been
\* answered 207 for a member that has a body and a sibling entry.
C33_Witness ==
    /\ Answered("PROPPATCH") /\ resp.status = 207
    /\ req.set = << <<"author", "v">> >> /\ req.remove = {"author"}
    /\ pre[make_resource_path(req.url)].body # << >>
    /\ Cardinality(Keys(pre)) >= 2
    /\ bucket[make_resource_path(req.url)].customMetadata["author"] = NoValue

\* the kind of an entry
Kind(object) == IF IsCollection(object) THEN "Collection" ELSE "member"

\* C36: PROPPATCH never changes the kind of an entry: a Collection stays a
\* Collection and a member stays a member, whatever is set or removed.
C36_KindUnchanged ==
    (Answered("PROPPATCH") /\ resp.status = 207) =>
        Kind(bucket[make_resource_path(req.url)])
            = Kind(pre[make_resource_path(req.url)])

\* a GET of an entry has been answered with the entry: the byte span it
\* reports and the size of the entity
Span ==
    [ rangeOffset |-> resp.contentRange[1], rangeEnd |-> resp.contentRange[2],
      size |-> resp.contentRange[3] ]

GotEntry == Answered("GET") /\ resp.contentRange # << >>

\* C34: GET answers 206 exactly when a range is present and the computed
\* span lies inside [0, size - 1] and is shorter than the entity; else 200.
C34_PartialContent ==
    GotEntry =>
        LET partial ==
                /\ req.range # NoRange
                /\ 0 <= Span.rangeOffset /\ Span.rangeEnd <= Span.size - 1
                /\ Span.rangeEnd - Span.rangeOffset + 1 < Span.size
        IN  resp.status = IF partial THEN 206 ELSE 200

\* C35: for every size and every range, calcContentRange yields an offset of
\* at least 0 and an end of at most size - 1, and the Content-Length
\* rangeEnd - rangeOffset + 1 is between 0 and size.
C35_RangeInBounds ==
    GotEntry =>
        /\ 0 <= Span.rangeOffset
        /\ Span.rangeEnd <= Span.size - 1
        /\ resp.contentLength = Span.rangeEnd - Span.rangeOffset + 1
        /\ 0 <= resp.contentLength /\ resp.contentLength <= Span.size

\* the methods that only read: OPTIONS, GET, HEAD, PROPFIND, and every
\* method that is not among SUPPORT_METHODS
ReadOnlyMethods ==
    { "OPTIONS", "GET", "HEAD", "PROPFIND" }
    \cup { m \in Methods : \A i \in 1..Len(SUPPORT_METHODS) : SUPPORT_METHODS[i] # m }

\* C37: OPTIONS, GET, HEAD, PROPFIND and the methods without handler leave
\* the store as it was, whatever the path, the headers and the status.
C37_ReadOnly == (pc = "done" /\ req.method \in ReadOnlyMethods) => bucket = pre

\* C37 witness: a method without handler has been refused on a store that
\* holds a Collection with a child.
C37_Witness ==
    /\ pc = "done" /\ req.method \in OtherMethods /\ resp.status = 405
    /\ \E k \in Keys(bucket) : IsCollection(bucket[k]) /\ Under(bucket, k) # {}

\* C38: a request whose method is not OPTIONS and whose Authorization header
\* is not exactly the one for the configured user and password is answered
\* 401 and leaves the store as it was, so that its response is the same on
\* every store; a request with that header, and every OPTIONS request with or
\* without it, is not answered 401, and OPTIONS gets its 204.
C38_AuthGate ==
    pc = "done" =>
        /\ (req.method # "OPTIONS" /\ req.authorization # BasicUserPass) =>
               resp = Response(401) /\ bucket = pre
        /\ (req.method = "OPTIONS" \/ req.authorization = BasicUserPass) =>
               resp.status # 401
        /\ req.method = "OPTIONS" => resp = Capabilities(204)

\* C38 witness: a DELETE of an existing entry that carries the header for
\* another password has been answered 401.
C38_Witness ==
    /\ Answered("DELETE") /\ resp.status = 401
    /\ req.authorization = <<66, 97, 115, 105, 99, 32, 100, 84, 112, 120>>
    /\ Has(bucket, make_resource_path(req.url))

\* the PUT of a child and the DELETE of its Collection have both returned,
\* the PUT with 201 and the DELETE with 204
BothSucceeded ==
    /\ conc.put = "done" /\ conc.put_status = 201
    /\ conc.del = "done" /\ conc.del_status = 204
    /\ parent_dir(make_resource_path(conc.put_request.url))
           = make_resource_path(conc.del_request.url)

\* C39: when a PUT of a child of Collection C and a DELETE of C, interleaved
\* store call by store call, have returned 201 and 204, there is no orphan:
\* C is still a Collection, or no entry is under C + "/".
C39_NoOrphan ==
    BothSucceeded =>
        LET C == make_resource_path(conc.del_request.url)
        IN  \/ Has(bucket, C) /\ IsCollection(bucket[C])
            \/ Under(bucket, C) = {}

\* a COPY, MOVE or DELETE is being handled
TreeOperation == pc # "idle" /\ req.method \in {"COPY", "MOVE", "DELETE"}

\* the promises of the fan-out are for entries the source held when the
\* request arrived: one per key at or under the source path
WorkIsBounded ==
    (TreeOperation /\ pc \in {"list", "join"}) =>
        DOMAIN tasks \subseteq AtOrUnder(pre, make_resource_path(req.url))

\* C40: with a store that answers every call and no other request, every
\* COPY, MOVE and DELETE comes to a response (the handler does not throw),
\* and its fan-out makes no more promises than the source held entries when
\* the request arrived, also when the destination lies inside the source.
C40_TreeOpsTerminate ==
    /\ []WorkIsBounded
    /\ [](TreeOperation /\ pc = "done" => resp.status # Threw)
    /\ [](TreeOperation => <>(pc = "done"))

----------------------------------------------------------------------------
(* The same properties on paths without empty segments *)

PlainStore(b) == \A k \in Keys(b) : Addressable(k)

\* the request's path and its normalized destination have no empty segment
PlainRequest ==
    /\ Addressable(make_resource_path(req.url))
    /\ has_destination(req) => Addressable(destination_of(req))

\* the hierarchy invariant held before the request
HierarchyBefore ==
    \A k \in Keys(pre) :
        \/ parent_dir(k) = EmptyStr
        \/ Has(pre, parent_dir(k)) /\ IsCollection(pre[parent_dir(k)])

\* On plain paths and a store that satisfied the hierarchy invariant, a
\* missing parent is answered as C2 states.
ParentMissing_OnPlainPaths == (PlainRequest /\ HierarchyBefore) => C2_ParentMissing

\* On plain source and destination paths, COPY of a member is as C5 states.
CopyMember_OnPlainPaths == PlainRequest => C5_CopyMember

\* On plain paths and a store of plain keys, recursive COPY is as C6 states.
CopyTree_OnPlainPaths == (PlainRequest /\ PlainStore(pre)) => C6_CopyTree

\* On plain paths and a store of plain keys, MOVE is as C7 states.
MoveDestructive_OnPlainPaths ==
    (PlainRequest /\ PlainStore(pre)) => C7_MoveDestructive

\* PUT under a member parent is answered as C10 states.
MemberParent_ForPut == req.method = "PUT" => C10_MemberParent

\* Without Destination header, COPY and MOVE are answered as C18 states.
BadDestination_WhenAbsent == req.dest = << >> => C18_BadDestination

\* A PUT without conditional headers answers 201 only with the body stored,
\* as C24 states.
PutAccepted_Unconditional == req.ifMatch = << >> => C24_PutAccepted

\* neither the request path, nor its destination, nor a stored key has an
\* empty segment, and source and destination are apart
PlainAndApart ==
    /\ PlainRequest /\ PlainStore(pre)
    /\ has_destination(req)
           => Disjoint(make_resource_path(req.url), destination_of(req))

\* On plain paths, with source and destination apart, MOVE onto an existing
\* destination is as C25 states.
MoveReplaces_OnPlainPaths == PlainAndApart => C25_MoveReplaces

\* On plain paths and a store of plain keys, MOVE keeps every source entry's
\* content as C26 states.
MoveKeepsContent_OnPlainPaths ==
    /\ [][DeleteAfterPut]_vars
    /\ []((Moving /\ PlainAndApart) => SourceKept)

\* On plain paths and a store of plain keys, with source and destination
\* apart, the Depth header selects what C27 states.
DepthSelection_OnPlainPaths == PlainAndApart => C27_DepthSelection

\* the range starts inside the entity or at its end: a suffix of at most its
\* size, an offset of at most its size
StartsInside ==
    /\ req.range.suffix <= Span.size
    /\ req.range.offset <= Span.size

\* For a range that starts inside the entity, the status is as C34 states.
PartialContent_FromInside == (GotEntry /\ StartsInside) => C34_PartialContent

\* For a range that starts inside the entity, the span is as C35 states.
RangeInBounds_FromInside == (GotEntry /\ StartsInside) => C35_RangeInBounds

\* the request is a DELETE, or a transfer to a destination outside the source
Apart ==
    \/ req.method = "DELETE"
    \/ /\ has_destination(req)
       /\ Disjoint(make_resource_path(req.url), destination_of(req))

\* With the destination outside the source, tree operations end as C40 states.
TreeOpsTerminate_Apart ==
    /\ []((TreeOperation /\ Apart) => WorkIsBounded)
    /\ []((TreeOperation /\ Apart /\ pc = "done") => resp.status # Threw)
    /\ [](TreeOperation => <>(pc = "done"))

\* A transfer into the source can end with the handler throwing.
NestedNeverThrows == ~(TreeOperation /\ pc = "done" /\ resp.status = Threw)

\* A PROPPATCH that does not name resourcetype keeps the kind, as C36 states.
KindUnchanged_OtherNames ==
    ( /\ "resourcetype" \notin req.remove
      /\ \A i \in 1..Len(req.set) : req.set[i][1] # "resourcetype" )
        => C36_KindUnchanged

====
